---- MODULE Spec2Model ----
(***************************************************************************)
(* Pricing-and-booking rules engine of the instant-quote component.        *)
(*                                                                         *)
(* The repository holds several revisions of InstantQuoteSchedule with the  *)
(* same computeTotals skeleton.  Two of them are modelled here:             *)
(*   computeTotals        the promo-code revision (src/unnamed/part_000),   *)
(*                        which takes _twoStory/_gutterGuards and a promo   *)
(*                        code string;                                      *)
(*   computeTotalsUpsell  the inline-upsell revision                        *)
(*                        (src/src/components/InstantQuoteSchedule.tsx,     *)
(*                        lines 715-765), which takes twoStory,             *)
(*                        gutterGuards and the house half-price flag.       *)
(*                                                                         *)
(* Money is an integer number of 1/10000 dollar, so that round2 (rounding   *)
(* to cents) and Math.round (rounding to whole dollars) are real            *)
(* roundings.  Rates are integer percents.                                  *)
(***************************************************************************)
EXTENDS Integers, Sequences, FiniteSets, TLC

VARIABLES
    selected,        \* Record<string, boolean>: service id -> selected
    twoStory,        \* boolean | null, as "Yes" / "No" / "Unanswered"
    gutterGuards,    \* boolean | null, as "Yes" / "No" / "Unanswered"
    promoHouseHalf,  \* house half-price flag
    promoCode,       \* string | null: sequence of characters, or null
    totals,          \* the Totals record of the last call
    mins,            \* the duration handed to mapDurationToHours
    hours,           \* number | undefined: the hour bucket
    meta,            \* the metadata entries of the booking link
    url,             \* the booking link
    promoInput,      \* the text of the discount-code field
    appliedPromo,    \* string | null: the active promo code
    promoMsg,        \* string | null: the message under the field
    search,          \* the UTM parameters of window.location.search
    effectPending,   \* the mount effect of the first render has not run yet
    queued,          \* state updates queued and not yet rendered, oldest first
    showUpsell,      \* inline upsell asked for
    showTripwire,    \* tripwire modal open
    attemptedSchedule, \* Schedule Now clicked once
    bookingUrlRef,   \* bookingUrlRef.current
    timer,           \* the setTimeout(..., 0) callbacks not yet run, oldest first
    opened,          \* the link handed to window.open by the last step
    raced,           \* events handled since a callback or effect has been pending
    catalog,         \* the Service[] array handed to computeTotals
    callLog,         \* arguments and result of every call made so far
    pc               \* "input" before the call, then the operation done

vars == <<selected, twoStory, gutterGuards, promoHouseHalf, promoCode, totals,
          mins, hours, meta, url, promoInput, appliedPromo, promoMsg, search,
          effectPending, queued, showUpsell, showTripwire, attemptedSchedule, bookingUrlRef, timer, opened,
          raced, catalog, callLog, pc>>

\* the objects a sequence of calls shares
callVars == <<catalog, callLog>>

\* the state of the upsell components
upsellVars == <<showUpsell, showTripwire, attemptedSchedule, bookingUrlRef, timer, opened, raced>>

\* the state of the promo-code component
promoVars == <<promoCode, promoInput, appliedPromo, promoMsg, search, effectPending, queued>>

-----------------------------------------------------------------------------
(* Numbers *)

\* one dollar, in the model's money unit
Dollar == 10000

Cent == Dollar \div 100

Max(a, b) == IF a >= b THEN a ELSE b

Min(a, b) == IF a <= b THEN a ELSE b

\* Math.floor in place of Math.round
MathRound_Floor(n) == (n \div Dollar) * Dollar

\* Math.round(n) for n in money units: nearest whole dollar, half rounds up
MathRound(n) == ((2 * n + Dollar) \div (2 * Dollar)) * Dollar

\* Math.round(n * 100) / 100: nearest cent, half rounds up
round2(n) == ((2 * n + Cent) \div (2 * Cent)) * Cent

\* n * (pct / 100) for a rate held as an integer percent
TimesRate(n, pct) == (n * pct) \div 100

-----------------------------------------------------------------------------
(* Strings: a string is a sequence of one-character strings; null is a     *)
(* sequence no string can equal.                                           *)

null == <<"null">>

ROOF50 == <<"R", "O", "O", "F", "5", "0">>

LowerLetters ==
    <<"a", "b", "c", "d", "e", "f", "g", "h", "i", "j", "k", "l", "m",
      "n", "o", "p", "q", "r", "s", "t", "u", "v", "w", "x", "y", "z">>

UpperLetters ==
    <<"A", "B", "C", "D", "E", "F", "G", "H", "I", "J", "K", "L", "M",
      "N", "O", "P", "Q", "R", "S", "T", "U", "V", "W", "X", "Y", "Z">>

\* String.prototype.toUpperCase on one character of the ASCII range, the
\* alphabet of the model's strings
UpperChar(c) ==
    IF \E i \in 1..26 : LowerLetters[i] = c
    THEN UpperLetters[CHOOSE i \in 1..26 : LowerLetters[i] = c]
    ELSE c

\* the string left in the case it was typed in
toUpperCase_AsTyped(s) == s

toUpperCase(s) == [i \in 1..Len(s) |-> UpperChar(s[i])]

\* white space and line terminators as String.prototype.trim removes them,
\* within the ASCII range: space, tab, line feed, carriage return, form feed
\* and vertical tab
WhiteSpace == {" ", "\t", "\n", "\r", "\f", ""}

RECURSIVE trimStart(_)
trimStart(s) ==
    IF s # <<>> /\ Head(s) \in WhiteSpace THEN trimStart(Tail(s)) ELSE s

RECURSIVE trimEnd(_)
trimEnd(s) ==
    IF s # <<>> /\ s[Len(s)] \in WhiteSpace THEN trimEnd(SubSeq(s, 1, Len(s) - 1)) ELSE s

\* String.prototype.trim
trim(s) == trimEnd(trimStart(s))

-----------------------------------------------------------------------------
(* Services, durations *)

SERVICES == <<
    [id |-> "pressure-driveway", name |-> "Pressure Wash: Driveway",   basePrice |-> 249 * Dollar],
    [id |-> "pressure-patio",    name |-> "Pressure Wash: Back Patio", basePrice |-> 99 * Dollar],
    [id |-> "roof",              name |-> "Roof Clean",                basePrice |-> 899 * Dollar],
    [id |-> "house",             name |-> "House Wash",                basePrice |-> 599 * Dollar],
    [id |-> "gutter",            name |-> "Gutter Clean",              basePrice |-> 249 * Dollar],
    [id |-> "windows",           name |-> "Window + Screen Clean",     basePrice |-> 449 * Dollar] >>

ServiceIds == {SERVICES[i].id : i \in 1..Len(SERVICES)}

DURATIONS_MIN ==
    [id \in ServiceIds |->
        CASE id = "pressure-driveway" -> 60
          [] id = "pressure-patio" -> 60
          [] id = "windows" -> 180
          [] id = "house" -> 120
          [] id = "roof" -> 120
          [] id = "gutter" -> 120]

gutterDuration(ts, guards) ==
    LET base == IF ts THEN 180 ELSE 120
    IN  IF guards THEN base * 2 ELSE base

\* every service its own category
discountCategoryFor_NoCollapse(serviceId) == serviceId

\* serviceId.startsWith("pressure-") ? "pressure" : serviceId
discountCategoryFor(serviceId) ==
    IF serviceId \in {"pressure-driveway", "pressure-patio"} THEN "pressure" ELSE serviceId

-----------------------------------------------------------------------------
(* Price rules *)

\* the half-price step left out
adjustedPrice_NoHalf(s, ts, gg, half) ==
    LET p1 == IF ts
              THEN CASE s.id = "gutter" -> s.basePrice * 2
                     [] s.id = "house" -> s.basePrice + 100 * Dollar
                     [] s.id = "windows" -> s.basePrice + 100 * Dollar
                     [] OTHER -> s.basePrice
              ELSE s.basePrice
        p2 == IF gg /\ s.id = "gutter" THEN p1 + 749 * Dollar ELSE p1
    IN  p2

\* the per-service price rule of the inline-upsell revision
adjustedPrice(s, ts, gg, half) ==
    LET p1 == IF ts
              THEN CASE s.id = "gutter" -> s.basePrice * 2
                     [] s.id = "house" -> s.basePrice + 100 * Dollar
                     [] s.id = "windows" -> s.basePrice + 100 * Dollar
                     [] OTHER -> s.basePrice
              ELSE s.basePrice
        p2 == IF gg /\ s.id = "gutter" THEN p1 + 749 * Dollar ELSE p1
        p3 == IF half /\ s.id = "house" THEN MathRound(p2 \div 2) ELSE p2
    IN  p3

Priced(s, price) ==
    [id |-> s.id, name |-> s.name, basePrice |-> s.basePrice, price |-> price]

\* services.map(...) of the inline-upsell revision
adjustedServicesUpsell(services, ts, gg, half) ==
    [i \in 1..Len(services) |-> Priced(services[i], adjustedPrice(services[i], ts, gg, half))]

\* services.map((s) => ({ ...s, price: s.basePrice })) of the promo revision
adjustedServicesBase(services) ==
    [i \in 1..Len(services) |-> Priced(services[i], services[i].basePrice)]

\* adjustedServices.filter((s) => Boolean(selectedMap[s.id]))
chosenOf(adjusted, selectedMap) ==
    LET isSelected(s) == selectedMap[s.id]
    IN  SelectSeq(adjusted, isSelected)

\* new Set(chosen.map((s) => discountCategoryFor(s.id))).size
effectiveCountOf(chosen) ==
    Cardinality({discountCategoryFor(chosen[i].id) : i \in 1..Len(chosen)})

\* a second service of a category not added to the sum
RECURSIVE sumPrices_Dedup(_)
sumPrices_Dedup(chosen) ==
    IF chosen = <<>> THEN 0
    ELSE LET s == Head(chosen)
             again == \E i \in 2..Len(chosen) :
                          discountCategoryFor(chosen[i].id) = discountCategoryFor(s.id)
         IN  (IF again THEN 0 ELSE s.price) + sumPrices_Dedup(Tail(chosen))

RECURSIVE sumPrices(_)
sumPrices(chosen) ==
    IF chosen = <<>> THEN 0 ELSE Head(chosen).price + sumPrices(Tail(chosen))

\* a ladder of ten-percent steps
multiRateFor_Steep(effectiveCount) ==
    IF effectiveCount >= 5 THEN 40
    ELSE IF effectiveCount = 4 THEN 30
    ELSE IF effectiveCount = 3 THEN 20
    ELSE IF effectiveCount = 2 THEN 10
    ELSE 0

\* the ladder counting services from one step too early
multiRateFor_OneEarly(effectiveCount) ==
    IF effectiveCount >= 4 THEN 20
    ELSE IF effectiveCount = 3 THEN 15
    ELSE IF effectiveCount = 2 THEN 10
    ELSE IF effectiveCount = 1 THEN 5
    ELSE 0

\* the bundle ladder, as an integer percent
multiRateFor(effectiveCount) ==
    IF effectiveCount >= 5 THEN 20
    ELSE IF effectiveCount = 4 THEN 15
    ELSE IF effectiveCount = 3 THEN 10
    ELSE IF effectiveCount = 2 THEN 5
    ELSE 0

\* a higher minimum order value
MIN_TOTAL_High == 299 * Dollar

\* a lower minimum order value
MIN_TOTAL_Low == 199 * Dollar

MIN_TOTAL == 249 * Dollar

\* the whole minimum charged as the fee instead of the difference
tripFeeFor_FlatFee(afterPromo) ==
    IF afterPromo < MIN_TOTAL /\ afterPromo > 0 THEN round2(MIN_TOTAL) ELSE 0

\* the afterPromo > 0 test left out
tripFeeFor_NoZeroGuard(afterPromo) ==
    IF afterPromo < MIN_TOTAL THEN round2(MIN_TOTAL - afterPromo) ELSE 0

tripFeeFor(afterPromo) ==
    IF afterPromo < MIN_TOTAL /\ afterPromo > 0 THEN round2(MIN_TOTAL - afterPromo) ELSE 0

\* the fee left out of the total
totalFor_DropsFee(afterPromo, tripFee) == Max(0, round2(afterPromo))

totalFor(afterPromo, tripFee) == Max(0, round2(afterPromo + tripFee))

RECURSIVE durationOf(_, _, _)
durationOf(chosen, ts, gg) ==
    IF chosen = <<>> THEN 0
    ELSE LET s == Head(chosen)
             d == IF s.id = "gutter" THEN gutterDuration(ts, gg)
                  ELSE IF s.id \in DOMAIN DURATIONS_MIN THEN DURATIONS_MIN[s.id] ELSE 0
         IN  d + durationOf(Tail(chosen), ts, gg)

-----------------------------------------------------------------------------
(* Promo registry *)

\* the JavaScript null of type Promo | null
NoPromo == [code |-> null, label |-> null]

\* the roof test left out
ROOF50apply_NoRoofTest(selectedMap, subtotalAfterBundle) ==
    [applicable |-> TRUE, amount |-> Min(50 * Dollar, Max(0, subtotalAfterBundle)), note |-> ""]

\* PROMOS[0].apply
ROOF50apply(selectedMap, subtotalAfterBundle) ==
    LET hasRoof == selectedMap["roof"]
    IN  IF ~hasRoof
        THEN [applicable |-> FALSE, amount |-> 0, note |-> "Add Roof Clean to use ROOF50."]
        ELSE [applicable |-> TRUE, amount |-> Min(50 * Dollar, Max(0, subtotalAfterBundle)), note |-> ""]

PROMOS == << [code |-> ROOF50, label |-> "$50 off Roof Clean"] >>

promoApply(promo, selectedMap, subtotalAfterBundle) ==
    ROOF50apply(selectedMap, subtotalAfterBundle)

findPromo(code) ==
    IF code = null \/ code = <<>> THEN NoPromo
    ELSE LET canonical == toUpperCase(trim(code))
             hits == {i \in 1..Len(PROMOS) : PROMOS[i].code = canonical}
         IN  IF hits = {} THEN NoPromo
             ELSE PROMOS[CHOOSE i \in hits : \A j \in hits : i <= j]

\* the promo amount with its sign turned
promoAmtFor_Surcharge(promo, selectedMap, afterBundle) ==
    IF promo # NoPromo
    THEN LET res == promoApply(promo, selectedMap, afterBundle)
         IN  IF res.applicable THEN 0 - round2(Min(afterBundle, res.amount)) ELSE 0
    ELSE 0

promoAmtFor(promo, selectedMap, afterBundle) ==
    IF promo # NoPromo
    THEN LET res == promoApply(promo, selectedMap, afterBundle)
         IN  IF res.applicable THEN round2(Min(afterBundle, res.amount)) ELSE 0
    ELSE 0

-----------------------------------------------------------------------------
(* computeTotals *)

\* promo-code revision: _twoStory and _gutterGuards are accepted and unused
computeTotals(selectedMap, services, ts, gg, code) ==
    LET adjustedServices == adjustedServicesBase(services)
        chosen == chosenOf(adjustedServices, selectedMap)
        selectedCount == Len(chosen)
        effectiveCount == effectiveCountOf(chosen)
        subtotal == sumPrices(chosen)
        multiRate == multiRateFor(effectiveCount)
        multiAmt == round2(TimesRate(subtotal, multiRate))
        afterBundle == round2(subtotal - multiAmt)
        promo == findPromo(code)
        promoAmt == promoAmtFor(promo, selectedMap, afterBundle)
        afterPromo == round2(afterBundle - promoAmt)
        tripFee == tripFeeFor(afterPromo)
        total == totalFor(afterPromo, tripFee)
        durationMinutes == durationOf(chosen, FALSE, FALSE)
    IN  [selectedCount |-> selectedCount,
         effectiveCount |-> effectiveCount,
         subtotal |-> subtotal,
         multiRate |-> multiRate,
         multiAmt |-> multiAmt,
         promoCode |-> IF promo # NoPromo THEN promo.code ELSE null,
         promoAmt |-> promoAmt,
         tripFee |-> tripFee,
         total |-> total,
         durationMinutes |-> durationMinutes]

\* inline-upsell revision: modifiers and the house half-price flag, no promo code
computeTotalsUpsell(selectedMap, services, ts, gg, half) ==
    LET adjustedServices == adjustedServicesUpsell(services, ts, gg, half)
        chosen == chosenOf(adjustedServices, selectedMap)
        selectedCount == Len(chosen)
        effectiveCount == effectiveCountOf(chosen)
        subtotal == sumPrices(chosen)
        multiRate == multiRateFor(effectiveCount)
        multiAmt == round2(TimesRate(subtotal, multiRate))
        afterDiscount == round2(subtotal - multiAmt)
        tripFee == tripFeeFor(afterDiscount)
        total == totalFor(afterDiscount, tripFee)
        durationMinutes == durationOf(chosen, ts, gg)
    IN  [selectedCount |-> selectedCount,
         effectiveCount |-> effectiveCount,
         subtotal |-> subtotal,
         multiRate |-> multiRate,
         multiAmt |-> multiAmt,
         tripFee |-> tripFee,
         total |-> total,
         durationMinutes |-> durationMinutes]

\* null read as true
orFalse_NullIsYes(answer) == answer # "No"

\* twoStory ?? false
orFalse(answer) == answer = "Yes"

-----------------------------------------------------------------------------
(* Booking slot and booking link *)

\* A number that may be missing is held as a one-element sequence, so that
\* undefined can be told from every number.
undefined == <<>>

Num(n) == <<n>>

\* Math.ceil(mins / 60) for an integer number of minutes
CeilHours(n) == (n + 59) \div 60

\* the clamp to 1..8 left out
mapDurationToHours_NoClamp(minutes) ==
    IF minutes = undefined \/ minutes[1] = 0 \/ minutes[1] < 0 THEN 1
    ELSE CeilHours(minutes[1])

mapDurationToHours(minutes) ==
    IF minutes = undefined \/ minutes[1] = 0 \/ minutes[1] < 0 THEN 1
    ELSE LET h == CeilHours(minutes[1])
         IN  Min(Max(h, 1), 8)

\* the endpoints, without their query string
CAL_URLS ==
    [h \in 1..8 |->
        CASE h = 1 -> "https://cal.com/guardian-pressure-washing/1-hour-job"
          [] h = 2 -> "https://cal.com/guardian-pressure-washing/2-hour-job"
          [] h = 3 -> "https://cal.com/guardian-pressure-washing/3-hour-job"
          [] h = 4 -> "https://cal.com/guardian-pressure-washing/4-hour-job"
          [] h = 5 -> "https://cal.com/guardian-pressure-washing/5-hour-job"
          [] h = 6 -> "https://cal.com/guardian-pressure-washing/6-hour-job"
          [] h = 7 -> "https://cal.com/guardian-pressure-washing/7-hour-job"
          [] h = 8 -> "https://cal.com/guardian-pressure-washing/8-hour-job"]

\* the query string every endpoint starts with
BaseParams == << << <<"overlayCalendar">>, <<"true">> >> >>

\* the name of a metadata parameter
metadataName(k) == <<"metadata[", k, "]">>

\* the one-hour endpoint for every value outside 1..8
buildBookingUrl_FallbackFirst(hourBucket, entries) ==
    LET base == IF hourBucket # undefined /\ hourBucket[1] \in DOMAIN CAL_URLS
                THEN CAL_URLS[hourBucket[1]] ELSE CAL_URLS[1]
    IN  [endpoint |-> base,
         searchParams |-> BaseParams \o
             [i \in 1..Len(entries) |-> <<metadataName(entries[i][1]), entries[i][2]>>]]

\* a URL is its endpoint and the list of its query parameters; entries is the
\* list of the object's entries in insertion order
buildBookingUrl(hourBucket, entries) ==
    LET base == IF hourBucket # undefined /\ hourBucket[1] \in DOMAIN CAL_URLS
                THEN CAL_URLS[hourBucket[1]] ELSE CAL_URLS[8]
    IN  [endpoint |-> base,
         searchParams |-> BaseParams \o
             [i \in 1..Len(entries) |-> <<metadataName(entries[i][1]), entries[i][2]>>]]

-----------------------------------------------------------------------------
(* Text: a text is a sequence of pieces, joined by \o *)

Digit(d) == <<"0", "1", "2", "3", "4", "5", "6", "7", "8", "9">>[d + 1]

\* String(n) for an integer n >= 0
RECURSIVE DecimalDigits(_)
DecimalDigits(n) ==
    IF n < 10 THEN <<Digit(n)>> ELSE DecimalDigits(n \div 10) \o <<Digit(n % 10)>>

\* String(n)
String(n) == IF n < 0 THEN <<"-">> \o DecimalDigits(0 - n) ELSE DecimalDigits(n)

\* n.toFixed(2) for an amount of money
toFixed2(n) ==
    LET cents == round2(IF n < 0 THEN 0 - n ELSE n) \div Cent
        sign == IF n < 0 /\ cents > 0 THEN <<"-">> ELSE <<>>
    IN  sign \o DecimalDigits(cents \div 100) \o <<".">>
             \o <<Digit((cents \div 10) % 10), Digit(cents % 10)>>

\* list.join(sep)
RECURSIVE join(_, _)
join(list, sep) ==
    IF list = <<>> THEN <<>>
    ELSE IF Len(list) = 1 THEN list[1]
    ELSE list[1] \o sep \o join(Tail(list), sep)

\* chosen.map((s) => `${s.name} ($${s.price.toFixed(2)})`).join(", ") || "None"
servicesList(chosen) ==
    LET items == [i \in 1..Len(chosen) |->
                     <<chosen[i].name, " ($">> \o toFixed2(chosen[i].price) \o <<")">>]
        joined == join(items, <<", ">>)
    IN  IF joined = <<>> THEN <<"None">> ELSE joined

\* the metadata of the promo revision's booking link
bookingMeta(selectedMap, t) ==
    LET chosen == chosenOf(adjustedServicesBase(SERVICES), selectedMap)
    IN  << <<"services", servicesList(chosen)>>,
           <<"subtotal", toFixed2(t.subtotal)>>,
           <<"discountRate", String(t.multiRate) \o <<"%">> >>,
           <<"discountAmount", toFixed2(t.multiAmt)>>,
           <<"promoCode", IF t.promoCode # null THEN t.promoCode ELSE <<>> >>,
           <<"promoAmount", toFixed2(t.promoAmt)>>,
           <<"total", toFixed2(t.total)>>,
           <<"durationMinutes", String(t.durationMinutes)>>,
           <<"effectiveServiceCount", String(t.effectiveCount)>> >>

hasGutter(selectedMap) == selectedMap["gutter"]

hasTwoStoryRelevant(selectedMap) ==
    selectedMap["windows"] \/ selectedMap["house"] \/ selectedMap["gutter"]

\* the Required test left out: an unanswered question reported as No
answerText_NoRequired(relevant, answer) ==
    IF relevant
    THEN IF answer = "Yes" THEN <<"Yes">> ELSE <<"No">>
    ELSE <<"N/A">>

\* relevant ? (answer === null ? "Required" : answer ? "Yes" : "No") : "N/A"
answerText(relevant, answer) ==
    IF relevant
    THEN IF answer = "Unanswered" THEN <<"Required">>
         ELSE IF answer = "Yes" THEN <<"Yes">> ELSE <<"No">>
    ELSE <<"N/A">>

\* the memo without the price rules
adjustedServicesMemo_BasePrices(ts, gg, half) ==
    [i \in 1..Len(SERVICES) |-> Priced(SERVICES[i], SERVICES[i].basePrice)]

\* the inline-upsell component's own adjustedServices memo
adjustedServicesMemo(ts, gg, half) ==
    [i \in 1..Len(SERVICES) |->
        LET s == SERVICES[i]
            p1 == IF orFalse(ts)
                  THEN CASE s.id = "gutter" -> s.basePrice * 2
                         [] s.id = "house" -> s.basePrice + 100 * Dollar
                         [] s.id = "windows" -> s.basePrice + 100 * Dollar
                         [] OTHER -> s.basePrice
                  ELSE s.basePrice
            p2 == IF orFalse(gg) /\ s.id = "gutter" THEN p1 + 749 * Dollar ELSE p1
            p3 == IF half /\ s.id = "house" THEN MathRound(p2 \div 2) ELSE p2
        IN  Priced(s, p3)]

\* the metadata of the inline-upsell revision's booking link
bookingMetaUpsell(selectedMap, ts, gg, half, t) ==
    LET chosen == chosenOf(adjustedServicesMemo(ts, gg, half), selectedMap)
    IN  << <<"services", servicesList(chosen)>>,
           <<"subtotal", toFixed2(t.subtotal)>>,
           <<"discountRate", String(t.multiRate) \o <<"%">> >>,
           <<"discountAmount", toFixed2(t.multiAmt)>>,
           <<"total", toFixed2(t.total)>>,
           <<"durationMinutes", String(t.durationMinutes)>>,
           <<"effectiveServiceCount", String(t.effectiveCount)>>,
           <<"twoStory", answerText(hasTwoStoryRelevant(selectedMap), ts)>>,
           <<"gutterGuards", answerText(hasGutter(selectedMap), gg)>>,
           <<"houseTripwire50", IF half THEN <<"Yes">> ELSE <<"No">> >> >>

-----------------------------------------------------------------------------
(* The engine under every input *)

Selections == [ServiceIds -> BOOLEAN]

Answers == {"Yes", "No", "Unanswered"}

\* promo code strings offered to the engine
PromoCodes ==
    { null,
      <<>>,
      <<" ">>,
      <<"R", "O", "O", "F">>,
      <<"R", "O", "O", "F", "5", "0", "0">>,
      <<"R", "O", "O", "F", " ", "5", "0">>,
      <<"S", "A", "V", "E", "1", "0">> }
    \cup
    { <<r, o1, o2, f, "5", "0">> :
          r \in {"r", "R"}, o1 \in {"o", "O"}, o2 \in {"o", "O"}, f \in {"f", "F"} }
    \cup
    { <<" ", "R", "o", "o", "f", "5", "0", " ">>,
      <<" ", " ", "r", "o", "o", "f", "5", "0">>,
      <<"R", "O", "O", "F", "5", "0", " ">>,
      <<"\t", "r", "O", "o", "F", "5", "0", "\t", " ">>,
      <<"\r", "\n", "r", "o", "o", "f", "5", "0", "\n">>,
      <<"\f", "R", "O", "O", "F", "5", "0", "">>,
      <<"w", "e", "l", "c", "o", "m", "e">> }

NoTotals == [pending |-> TRUE]

\* no link built yet
NoUrl == [endpoint |-> "", searchParams |-> <<>>]

\* no setTimeout callback pending
NoTimer == <<>>

\* the callbacks a user can queue before the first of them runs
MaxPending == 2

\* the upsell components not in use
NoUpsell ==
    /\ showUpsell = FALSE
    /\ showTripwire = FALSE
    /\ attemptedSchedule = FALSE
    /\ bookingUrlRef = NoUrl
    /\ timer = NoTimer
    /\ opened = NoUrl
    /\ raced = 0

\* no call logged, the catalog as declared
NoCalls ==
    /\ catalog = SERVICES
    /\ callLog = <<>>

\* a location without query string
NoSearch == [utm_source |-> "", utm_medium |-> "", utm_campaign |-> ""]

Init ==
    /\ NoCalls
    /\ NoUpsell
    /\ selected \in Selections
    /\ twoStory \in Answers
    /\ gutterGuards \in Answers
    /\ promoHouseHalf \in BOOLEAN
    /\ promoCode \in PromoCodes
    /\ totals = NoTotals
    /\ mins = undefined
    /\ hours = undefined
    /\ meta = <<>>
    /\ url = NoUrl
    /\ promoInput = <<>>
    /\ appliedPromo = null
    /\ promoMsg = null
    /\ search = NoSearch
    /\ effectPending = FALSE
    /\ queued = <<>>
    /\ pc = "input"

\* a call of the promo revision's computeTotals; its boolean arguments are
\* true for the answer Yes
CallComputeTotals ==
    /\ UNCHANGED callVars
    /\ UNCHANGED upsellVars
    /\ pc = "input"
    /\ totals' = computeTotals(selected, SERVICES, twoStory = "Yes", gutterGuards = "Yes", promoCode)
    /\ mins' = Num(totals'.durationMinutes)
    /\ hours' = Num(mapDurationToHours(mins'))
    /\ meta' = bookingMeta(selected, totals')
    /\ url' = buildBookingUrl(hours', meta')
    /\ pc' = "promo"
    /\ UNCHANGED <<selected, twoStory, gutterGuards, promoHouseHalf, promoCode,
                   promoInput, appliedPromo, promoMsg, search, effectPending, queued>>

\* the totals memo of the inline-upsell component
CallComputeTotalsUpsell ==
    /\ UNCHANGED callVars
    /\ UNCHANGED upsellVars
    /\ pc = "input"
    /\ totals' = computeTotalsUpsell(selected, SERVICES, orFalse(twoStory), orFalse(gutterGuards), promoHouseHalf)
    /\ mins' = Num(totals'.durationMinutes)
    /\ hours' = Num(mapDurationToHours(mins'))
    /\ meta' = bookingMetaUpsell(selected, twoStory, gutterGuards, promoHouseHalf, totals')
    /\ url' = buildBookingUrl(hours', meta')
    /\ pc' = "upsell"
    /\ UNCHANGED <<selected, twoStory, gutterGuards, promoHouseHalf, promoCode,
                   promoInput, appliedPromo, promoMsg, search, effectPending, queued>>

Next == CallComputeTotals \/ CallComputeTotalsUpsell

Spec == Init /\ [][Next]_vars

-----------------------------------------------------------------------------
(* mapDurationToHours under every duration *)

MaxMinutes == 600

Durations == {undefined} \cup {Num(n) : n \in (0 - MaxMinutes)..MaxMinutes}

InitSlot ==
    /\ NoCalls
    /\ NoUpsell
    /\ mins \in Durations
    /\ hours = undefined
    /\ selected = [id \in ServiceIds |-> FALSE]
    /\ twoStory = "Unanswered"
    /\ gutterGuards = "Unanswered"
    /\ promoHouseHalf = FALSE
    /\ promoCode = null
    /\ totals = NoTotals
    /\ meta = <<>>
    /\ url = NoUrl
    /\ promoInput = <<>>
    /\ appliedPromo = null
    /\ promoMsg = null
    /\ search = NoSearch
    /\ effectPending = FALSE
    /\ queued = <<>>
    /\ pc = "input"

CallMapDurationToHours ==
    /\ UNCHANGED callVars
    /\ UNCHANGED upsellVars
    /\ pc = "input"
    /\ hours' = Num(mapDurationToHours(mins))
    /\ pc' = "slot"
    /\ UNCHANGED <<selected, twoStory, gutterGuards, promoHouseHalf, promoCode, totals,
                   mins, meta, url, promoInput, appliedPromo, promoMsg, search, effectPending, queued>>

NextSlot == CallMapDurationToHours

SpecSlot == InitSlot /\ [][NextSlot]_vars

-----------------------------------------------------------------------------
(* buildBookingUrl under every hour bucket and metadata object *)

MaxHours == 10

MaxMeta == 3

MetaKeys == {"services", "total", "twoStory"}

MetaValues == {<<"None">>, <<"249.00">>}

HourBuckets == {undefined} \cup {Num(h) : h \in (0 - MaxHours)..MaxHours}

\* the entry lists of objects: no key twice
Metas ==
    UNION {{m \in [1..n -> MetaKeys \X MetaValues] :
               \A i, j \in 1..n : m[i][1] = m[j][1] => i = j} : n \in 0..MaxMeta}

InitUrl ==
    /\ NoCalls
    /\ NoUpsell
    /\ hours \in HourBuckets
    /\ meta \in Metas
    /\ url = NoUrl
    /\ mins = undefined
    /\ selected = [id \in ServiceIds |-> FALSE]
    /\ twoStory = "Unanswered"
    /\ gutterGuards = "Unanswered"
    /\ promoHouseHalf = FALSE
    /\ promoCode = null
    /\ totals = NoTotals
    /\ promoInput = <<>>
    /\ appliedPromo = null
    /\ promoMsg = null
    /\ search = NoSearch
    /\ effectPending = FALSE
    /\ queued = <<>>
    /\ pc = "input"

CallBuildBookingUrl ==
    /\ UNCHANGED callVars
    /\ UNCHANGED upsellVars
    /\ pc = "input"
    /\ url' = buildBookingUrl(hours, meta)
    /\ pc' = "url"
    /\ UNCHANGED <<selected, twoStory, gutterGuards, promoHouseHalf, promoCode, totals,
                   mins, hours, meta, promoInput, appliedPromo, promoMsg, search, effectPending, queued>>

NextUrl == CallBuildBookingUrl

SpecUrl == InitUrl /\ [][NextUrl]_vars

-----------------------------------------------------------------------------
(* The promo-code component: discount-code field, Apply and Remove *)

\* URLSearchParams.get of the three UTM parameters; "" for a missing one
Searches ==
    [utm_source : {"doorhanger", "google", ""},
     utm_medium : {"print", ""},
     utm_campaign : {"roof_cleaning", ""}]

isDoorhanger(q) ==
    /\ q.utm_source = "doorhanger"
    /\ q.utm_medium = "print"
    /\ q.utm_campaign = "roof_cleaning"

\* the texts typed into the discount-code field
TypedCodes ==
    { <<>>,
      <<"R", "O", "O", "F", "5", "0">>,
      <<"r", "o", "o", "f", "5", "0">>,
      <<" ", "R", "o", "o", "f", "5", "0", " ">>,
      <<"R", "O", "O", "F">>,
      <<"S", "A", "V", "E", "1", "0">>,
      <<"\n", "r", "o", "o", "f", "5", "0", "\r", "\n">>,
      <<"b", "o", "b">> }

\* what handleApplyPromo sets, from the field's text and the selection
handleApplyPromo(input, selectedMap) ==
    LET code == toUpperCase(trim(input))
        promo == findPromo(code)
        selectedServices == chosenOf(adjustedServicesBase(SERVICES), selectedMap)
        categories == Cardinality({discountCategoryFor(selectedServices[i].id) :
                                      i \in 1..Len(selectedServices)})
        tier == IF categories >= 5 THEN 20
                ELSE IF categories = 4 THEN 15
                ELSE IF categories = 3 THEN 10
                ELSE IF categories = 2 THEN 5
                ELSE 0
        afterBundlePreview == round2(TimesRate(sumPrices(selectedServices), 100 - tier))
        res == promoApply(promo, selectedMap, afterBundlePreview)
    IN  IF promo = NoPromo
        THEN [appliedPromo |-> null, promoMsg |-> <<"Invalid code.">>]
        ELSE IF ~res.applicable
        THEN [appliedPromo |-> null,
              promoMsg |-> IF res.note # "" THEN <<res.note>>
                           ELSE <<"Code not applicable to current selection.">>]
        ELSE [appliedPromo |-> promo.code, promoMsg |-> null]

\* the active code left in place
handleRemovePromo_KeepsCode ==
    [appliedPromo |-> appliedPromo, promoInput |-> <<>>, promoMsg |-> null]

\* what handleRemovePromo sets
handleRemovePromo ==
    [appliedPromo |-> null, promoInput |-> <<>>, promoMsg |-> null]

\* the render after a state change: totals, hours and bookingUrl
Render ==
    /\ totals' = computeTotals(selected', SERVICES, FALSE, FALSE, appliedPromo')
    /\ mins' = Num(totals'.durationMinutes)
    /\ hours' = Num(mapDurationToHours(mins'))
    /\ meta' = bookingMeta(selected', totals')
    /\ url' = buildBookingUrl(hours', meta')

NoSelection == [id \in ServiceIds |-> FALSE]

\* the first render, before the mount effect has run
InitPromo ==
    /\ NoCalls
    /\ NoUpsell
    /\ selected = NoSelection
    /\ promoInput = <<>>
    /\ appliedPromo = null
    /\ promoMsg = null
    /\ search \in Searches
    /\ effectPending = TRUE
    /\ queued = <<>>
    /\ totals = computeTotals(NoSelection, SERVICES, FALSE, FALSE, null)
    /\ mins = Num(totals.durationMinutes)
    /\ hours = Num(mapDurationToHours(mins))
    /\ meta = bookingMeta(NoSelection, totals)
    /\ url = buildBookingUrl(hours, meta)
    /\ twoStory = "Unanswered"
    /\ gutterGuards = "Unanswered"
    /\ promoHouseHalf = FALSE
    /\ promoCode = null
    /\ pc = "first-render"

\* the events handled between the first render and the run of its effect
MaxEarly == 2

\* a user event is handled: while the effect is pending, one more event has
\* overtaken it
OvertakesEffect ==
    /\ effectPending => raced < MaxEarly
    /\ raced' = IF effectPending THEN raced + 1 ELSE raced

\* the state of the component the last render has shown
rendered ==
    [selected |-> selected, promoInput |-> promoInput,
     appliedPromo |-> appliedPromo, promoMsg |-> promoMsg]

\* one queued state update applied to the state before it; the updates of
\* setSelected are functions of the previous selection
applyUpdate(st, u) ==
    CASE u.set = "toggle" ->
             [st EXCEPT !.selected = [@ EXCEPT ![u.to[1]] = ~@]]
      [] u.set = "select" ->
             [st EXCEPT !.selected = [@ EXCEPT ![u.to[1]] = TRUE]]
      [] u.set = "promoInput" -> [st EXCEPT !.promoInput = u.to]
      [] u.set = "appliedPromo" -> [st EXCEPT !.appliedPromo = u.to]
      [] u.set = "promoMsg" -> [st EXCEPT !.promoMsg = u.to]

\* the queue of updates processed in order
RECURSIVE applyUpdates(_, _)
applyUpdates(st, updates) ==
    IF updates = <<>> THEN st
    ELSE applyUpdates(applyUpdate(st, Head(updates)), Tail(updates))

\* the render after a handler has queued its updates: every queued update
\* is processed, the effect's before the handler's
Commit(updates) ==
    LET st == applyUpdates(rendered, queued \o updates)
    IN  /\ selected' = st.selected
        /\ promoInput' = st.promoInput
        /\ appliedPromo' = st.appliedPromo
        /\ promoMsg' = st.promoMsg
        /\ queued' = <<>>
        /\ Render

\* the three updates the effect queues for the doorhanger link
effectUpdates(location) ==
    IF isDoorhanger(location)
    THEN << [set |-> "appliedPromo", to |-> ROOF50],
            [set |-> "promoInput", to |-> ROOF50],
            [set |-> "select", to |-> <<"roof">>] >>
    ELSE <<>>

\* the body of the passive effect of the first render; it runs once, before
\* or after the first events, and its updates wait for the next render
MountEffect ==
    /\ UNCHANGED callVars
    /\ UNCHANGED <<showUpsell, showTripwire, attemptedSchedule, bookingUrlRef, timer>>
    /\ effectPending
    /\ effectPending' = FALSE
    /\ raced' = 0
    /\ queued' = queued \o effectUpdates(search)
    /\ opened' = NoUrl
    /\ pc' = IF pc = "first-render" THEN "effect-run" ELSE "effect-run-late"
    /\ UNCHANGED <<selected, promoInput, appliedPromo, promoMsg>>
    /\ UNCHANGED <<twoStory, gutterGuards, promoHouseHalf, promoCode, search>>
    /\ UNCHANGED <<totals, mins, hours, meta, url>>

\* the render of the updates the effect has queued
RenderEffect ==
    /\ UNCHANGED callVars
    /\ UNCHANGED <<showUpsell, showTripwire, attemptedSchedule, bookingUrlRef, timer, raced>>
    /\ queued # <<>>
    /\ opened' = NoUrl
    /\ pc' = IF pc = "effect-run" THEN "mounted" ELSE "mounted-late"
    /\ UNCHANGED <<twoStory, gutterGuards, promoHouseHalf, promoCode, search, effectPending>>
    /\ Commit(<<>>)

\* a click on a service card
ToggleService(id) ==
    /\ UNCHANGED callVars
    /\ UNCHANGED <<showUpsell, showTripwire, attemptedSchedule, bookingUrlRef, timer>>
    /\ OvertakesEffect
    /\ opened' = NoUrl
    /\ pc' = "toggled"
    /\ UNCHANGED <<twoStory, gutterGuards, promoHouseHalf, promoCode, search, effectPending>>
    /\ Commit(<< [set |-> "toggle", to |-> <<id>>] >>)

\* typing into the field, which is disabled while the render shows a code
ChangePromoInput(text) ==
    /\ UNCHANGED callVars
    /\ UNCHANGED <<showUpsell, showTripwire, attemptedSchedule, bookingUrlRef, timer>>
    /\ OvertakesEffect
    /\ opened' = NoUrl
    /\ appliedPromo = null
    /\ pc' = "typed"
    /\ UNCHANGED <<twoStory, gutterGuards, promoHouseHalf, promoCode, search, effectPending>>
    /\ Commit(<< [set |-> "promoInput", to |-> text] >>)

\* a code is among the updates waiting for a render
codeQueued == \E i \in 1..Len(queued) : queued[i].set = "appliedPromo" /\ queued[i].to # null

\* a click on Apply, the button the render shows while it shows no code; the
\* handler reads the field and the selection of that render
ClickApply ==
    /\ UNCHANGED callVars
    /\ UNCHANGED <<showUpsell, showTripwire, attemptedSchedule, bookingUrlRef, timer>>
    /\ OvertakesEffect
    /\ opened' = NoUrl
    /\ appliedPromo = null
    /\ LET set == handleApplyPromo(promoInput, selected)
       IN  /\ pc' = IF set.appliedPromo = null THEN "rejected"
                    ELSE IF codeQueued THEN "applied-over" ELSE "applied"
           /\ Commit(<< [set |-> "promoMsg", to |-> set.promoMsg],
                        [set |-> "appliedPromo", to |-> set.appliedPromo] >>)
    /\ UNCHANGED <<twoStory, gutterGuards, promoHouseHalf, promoCode, search, effectPending>>

\* a click on Remove, the button the render shows while it shows a code
ClickRemove ==
    /\ UNCHANGED callVars
    /\ UNCHANGED <<showUpsell, showTripwire, attemptedSchedule, bookingUrlRef, timer>>
    /\ OvertakesEffect
    /\ opened' = NoUrl
    /\ appliedPromo # null
    /\ pc' = "removed"
    /\ UNCHANGED <<twoStory, gutterGuards, promoHouseHalf, promoCode, search, effectPending>>
    /\ Commit(<< [set |-> "appliedPromo", to |-> handleRemovePromo.appliedPromo],
                 [set |-> "promoInput", to |-> handleRemovePromo.promoInput],
                 [set |-> "promoMsg", to |-> handleRemovePromo.promoMsg] >>)

\* the gate of the Schedule Now button
canSchedulePromo(t) == t.total > 0

\* a click on Schedule Now, which is disabled unless canSchedule; it sets no
\* state, so no render follows
ClickScheduleNowPromo ==
    /\ UNCHANGED callVars
    /\ UNCHANGED <<showUpsell, showTripwire, attemptedSchedule, bookingUrlRef, timer>>
    /\ OvertakesEffect
    /\ canSchedulePromo(totals)
    /\ opened' = url
    /\ pc' = "scheduled"
    /\ UNCHANGED <<selected, twoStory, gutterGuards, promoHouseHalf, promoCode,
                   promoInput, appliedPromo, promoMsg, search, effectPending, queued>>
    /\ UNCHANGED <<totals, mins, hours, meta, url>>

NextPromo ==
    \/ MountEffect
    \/ RenderEffect
    \/ \E id \in ServiceIds : ToggleService(id)
    \/ \E text \in TypedCodes : ChangePromoInput(text)
    \/ ClickApply
    \/ ClickRemove
    \/ ClickScheduleNowPromo

SpecPromo == InitPromo /\ [][NextPromo]_vars

-----------------------------------------------------------------------------
(* The inline-upsell component: service cards, the two questions, Schedule  *)
(* Now and the house-wash offer                                            *)

needsTwoStory(selectedMap, ts) == hasTwoStoryRelevant(selectedMap) /\ ts = "Unanswered"

needsGutterGuards(selectedMap, gg) == hasGutter(selectedMap) /\ gg = "Unanswered"

\* the gate with the two questions left out
canSchedule_TotalOnly(t, selectedMap, ts, gg) == t.total > 0

canSchedule(t, selectedMap, ts, gg) ==
    /\ t.total > 0
    /\ ~needsTwoStory(selectedMap, ts)
    /\ ~needsGutterGuards(selectedMap, gg)

\* the offer panel is in the page
upsellVisible == ~selected["house"] /\ showUpsell

\* the render after a state change: totals, hours, bookingUrl, and the
\* effect that copies bookingUrl into bookingUrlRef
RenderUpsell ==
    /\ totals' = computeTotalsUpsell(selected', SERVICES, orFalse(twoStory'),
                                     orFalse(gutterGuards'), promoHouseHalf')
    /\ mins' = Num(totals'.durationMinutes)
    /\ hours' = Num(mapDurationToHours(mins'))
    /\ meta' = bookingMetaUpsell(selected', twoStory', gutterGuards', promoHouseHalf', totals')
    /\ url' = buildBookingUrl(hours', meta')
    /\ bookingUrlRef' = url'

InitUpsell ==
    /\ NoCalls
    /\ selected = NoSelection
    /\ twoStory = "Unanswered"
    /\ gutterGuards = "Unanswered"
    /\ promoHouseHalf = FALSE
    /\ showUpsell = FALSE
    /\ showTripwire = FALSE
    /\ attemptedSchedule = FALSE
    /\ timer = NoTimer
    /\ opened = NoUrl
    /\ raced = 0
    /\ totals = computeTotalsUpsell(NoSelection, SERVICES, FALSE, FALSE, FALSE)
    /\ mins = Num(totals.durationMinutes)
    /\ hours = Num(mapDurationToHours(mins))
    /\ meta = bookingMetaUpsell(NoSelection, "Unanswered", "Unanswered", FALSE, totals)
    /\ url = buildBookingUrl(hours, meta)
    /\ bookingUrlRef = url
    /\ promoCode = null
    /\ promoInput = <<>>
    /\ appliedPromo = null
    /\ promoMsg = null
    /\ search = NoSearch
    /\ effectPending = FALSE
    /\ queued = <<>>
    /\ pc = "first-render"

\* a click on a service card
ToggleCard(id) ==
    /\ UNCHANGED callVars
    /\ selected' = [selected EXCEPT ![id] = ~selected[id]]
    /\ opened' = NoUrl
    /\ pc' = "toggled"
    /\ UNCHANGED <<twoStory, gutterGuards, promoHouseHalf, showUpsell, showTripwire,
                   attemptedSchedule, timer>>
    /\ UNCHANGED promoVars
    /\ UNCHANGED raced
    /\ RenderUpsell

\* Yes or No on the two-story question, shown while it is relevant
SetTwoStory(answer) ==
    /\ UNCHANGED callVars
    /\ hasTwoStoryRelevant(selected)
    /\ twoStory' = answer
    /\ opened' = NoUrl
    /\ pc' = "answered"
    /\ UNCHANGED <<selected, gutterGuards, promoHouseHalf, showUpsell, showTripwire,
                   attemptedSchedule, timer>>
    /\ UNCHANGED promoVars
    /\ UNCHANGED raced
    /\ RenderUpsell

\* Yes or No on the gutter-guards question, shown while gutter is selected
SetGutterGuards(answer) ==
    /\ UNCHANGED callVars
    /\ hasGutter(selected)
    /\ gutterGuards' = answer
    /\ opened' = NoUrl
    /\ pc' = "answered"
    /\ UNCHANGED <<selected, twoStory, promoHouseHalf, showUpsell, showTripwire,
                   attemptedSchedule, timer>>
    /\ UNCHANGED promoVars
    /\ UNCHANGED raced
    /\ RenderUpsell

\* a click on Schedule Now, which is disabled unless canSchedule
ClickScheduleNow ==
    /\ UNCHANGED callVars
    /\ canSchedule(totals, selected, twoStory, gutterGuards)
    /\ attemptedSchedule' = TRUE
    /\ IF ~selected["house"]
       THEN /\ showUpsell' = TRUE
            /\ opened' = NoUrl
            /\ pc' = "offered"
       ELSE /\ showUpsell' = showUpsell
            /\ opened' = url
            /\ pc' = "scheduled"
    /\ UNCHANGED <<selected, twoStory, gutterGuards, promoHouseHalf, showTripwire, timer>>
    /\ UNCHANGED promoVars
    /\ UNCHANGED raced
    /\ RenderUpsell

\* the accept handler's callback holds no link of its own: it reads
\* bookingUrlRef.current when it runs
readsRef == [captured |-> NoUrl]

\* a click on Add House Wash in the offer panel
AcceptUpsell ==
    /\ UNCHANGED callVars
    /\ upsellVisible
    /\ Len(timer) < MaxPending
    /\ selected' = [selected EXCEPT !["house"] = TRUE]
    /\ promoHouseHalf' = TRUE
    /\ showUpsell' = FALSE
    /\ timer' = Append(timer, readsRef)
    /\ opened' = NoUrl
    /\ pc' = "accepted"
    /\ UNCHANGED <<twoStory, gutterGuards, showTripwire, attemptedSchedule>>
    /\ UNCHANGED promoVars
    /\ UNCHANGED raced
    /\ RenderUpsell

\* the oldest timeout set by AcceptUpsell: window.open(bookingUrlRef.current)
UpsellTimerFires ==
    /\ UNCHANGED callVars
    /\ timer # <<>>
    /\ opened' = bookingUrlRef
    /\ timer' = Tail(timer)
    /\ pc' = "accepted-opened"
    /\ UNCHANGED <<selected, twoStory, gutterGuards, promoHouseHalf, showUpsell,
                   showTripwire, attemptedSchedule>>
    /\ UNCHANGED promoVars
    /\ UNCHANGED raced
    /\ RenderUpsell

\* a click on No Thanks in the offer panel
DeclineUpsell ==
    /\ UNCHANGED callVars
    /\ upsellVisible
    /\ showUpsell' = FALSE
    /\ opened' = bookingUrlRef
    /\ pc' = "declined"
    /\ UNCHANGED <<selected, twoStory, gutterGuards, promoHouseHalf, showTripwire,
                   attemptedSchedule, timer>>
    /\ UNCHANGED promoVars
    /\ UNCHANGED raced
    /\ RenderUpsell

NextUpsell ==
    \/ \E id \in ServiceIds : ToggleCard(id)
    \/ \E answer \in {"Yes", "No"} : SetTwoStory(answer)
    \/ \E answer \in {"Yes", "No"} : SetGutterGuards(answer)
    \/ ClickScheduleNow
    \/ AcceptUpsell
    \/ UpsellTimerFires
    \/ DeclineUpsell

SpecUpsell == InitUpsell /\ [][NextUpsell]_vars

-----------------------------------------------------------------------------
(* The modal-tripwire revision: catalog, computeTotals, booking link, and   *)
(* the component with its modal                                            *)

SERVICES_Modal == <<
    [id |-> "pressure-driveway", name |-> "Pressure Wash - Driveway",   basePrice |-> 249 * Dollar],
    [id |-> "pressure-patio",    name |-> "Pressure Wash - Back Patio", basePrice |-> 99 * Dollar],
    [id |-> "windows",           name |-> "Window/Screen Clean",        basePrice |-> 449 * Dollar],
    [id |-> "house",             name |-> "House Wash",                 basePrice |-> 599 * Dollar],
    [id |-> "roof",              name |-> "Roof Clean",                 basePrice |-> 899 * Dollar],
    [id |-> "gutter",            name |-> "Gutter Clean",               basePrice |-> 249 * Dollar] >>

SERVICE_GROUP ==
    [id \in ServiceIds |->
        CASE id = "pressure-driveway" -> "pressure"
          [] id = "pressure-patio" -> "pressure"
          [] OTHER -> id]

\* services.map(...) with the price rules, here with boolean modifiers
adjustedServicesModal(services, ts, gg, half) ==
    [i \in 1..Len(services) |->
        LET s == services[i]
            p1 == IF ts
                  THEN CASE s.id = "gutter" -> s.basePrice * 2
                         [] s.id = "house" -> s.basePrice + 100 * Dollar
                         [] s.id = "windows" -> s.basePrice + 100 * Dollar
                         [] OTHER -> s.basePrice
                  ELSE s.basePrice
            p2 == IF gg /\ s.id = "gutter" THEN p1 + 749 * Dollar ELSE p1
            p3 == IF half /\ s.id = "house" THEN MathRound(p2 \div 2) ELSE p2
        IN  Priced(s, p3)]

computeTotalsModal(selectedMap, services, ts, gg, half) ==
    LET adjustedServices == adjustedServicesModal(services, ts, gg, half)
        chosen == chosenOf(adjustedServices, selectedMap)
        chosenGroups == {SERVICE_GROUP[chosen[i].id] : i \in 1..Len(chosen)}
        selectedCount == Cardinality(chosenGroups)
        subtotal == sumPrices(chosen)
        multiRate == IF selectedCount >= 5 THEN 20
                     ELSE IF selectedCount = 4 THEN 15
                     ELSE IF selectedCount = 3 THEN 10
                     ELSE IF selectedCount = 2 THEN 5
                     ELSE 0
        multiAmt == round2(TimesRate(subtotal, multiRate))
        afterDiscount == round2(subtotal - multiAmt)
        tripFee == IF afterDiscount < 249 * Dollar /\ afterDiscount > 0
                   THEN round2(249 * Dollar - afterDiscount) ELSE 0
        total == Max(0, round2(afterDiscount + tripFee))
        durationMinutes == durationOf(chosen, ts, gg)
    IN  [selectedCount |-> selectedCount,
         subtotal |-> subtotal,
         multiRate |-> multiRate,
         multiAmt |-> multiAmt,
         tripFee |-> tripFee,
         total |-> total,
         durationMinutes |-> durationMinutes]

\* String(n) and `${n}` for an amount of money: no trailing zeros
NumberToString(n) ==
    LET cents == round2(IF n < 0 THEN 0 - n ELSE n) \div Cent
        sign == IF n < 0 /\ cents > 0 THEN <<"-">> ELSE <<>>
        whole == DecimalDigits(cents \div 100)
        frac == cents % 100
    IN  sign \o whole \o
        (IF frac = 0 THEN <<>>
         ELSE IF frac % 10 = 0 THEN <<".", Digit(frac \div 10)>>
         ELSE <<".", Digit(frac \div 10), Digit(frac % 10)>>)

\* the metadata of the modal revision's booking link
bookingMetaModal(selectedMap, ts, gg, half, t) ==
    LET chosen == chosenOf(adjustedServicesModal(SERVICES_Modal, ts, gg, half), selectedMap)
        items == [i \in 1..Len(chosen) |->
                     <<chosen[i].name, ":">> \o NumberToString(chosen[i].price)]
        joined == join(items, <<"|">>)
    IN  << <<"services", IF joined = <<>> THEN <<"None">> ELSE joined>>,
           <<"total", NumberToString(t.total)>>,
           <<"durationMinutes", String(t.durationMinutes)>>,
           <<"twoStory", IF hasTwoStoryRelevant(selectedMap)
                         THEN (IF ts THEN <<"Yes">> ELSE <<"No">>) ELSE <<"N/A">> >>,
           <<"gutterGuards", IF hasGutter(selectedMap)
                             THEN (IF gg THEN <<"Yes">> ELSE <<"No">>) ELSE <<"N/A">> >>,
           <<"houseTripwire50", IF half THEN <<"Yes">> ELSE <<"No">> >> >>

\* the render after a state change: totals, hours, bookingUrl
RenderModal ==
    /\ totals' = computeTotalsModal(selected', SERVICES_Modal, twoStory' = "Yes",
                                    gutterGuards' = "Yes", promoHouseHalf')
    /\ mins' = Num(totals'.durationMinutes)
    /\ hours' = Num(mapDurationToHours(mins'))
    /\ meta' = bookingMetaModal(selected', twoStory' = "Yes", gutterGuards' = "Yes",
                                promoHouseHalf', totals')
    /\ url' = buildBookingUrl(hours', meta')

InitModal ==
    /\ NoCalls
    /\ selected = NoSelection
    /\ twoStory = "No"
    /\ gutterGuards = "No"
    /\ promoHouseHalf = FALSE
    /\ showTripwire = FALSE
    /\ showUpsell = FALSE
    /\ attemptedSchedule = FALSE
    /\ bookingUrlRef = NoUrl
    /\ timer = NoTimer
    /\ opened = NoUrl
    /\ raced = 0
    /\ totals = computeTotalsModal(NoSelection, SERVICES_Modal, FALSE, FALSE, FALSE)
    /\ mins = Num(totals.durationMinutes)
    /\ hours = Num(mapDurationToHours(mins))
    /\ meta = bookingMetaModal(NoSelection, FALSE, FALSE, FALSE, totals)
    /\ url = buildBookingUrl(hours, meta)
    /\ promoCode = null
    /\ promoInput = <<>>
    /\ appliedPromo = null
    /\ promoMsg = null
    /\ search = NoSearch
    /\ effectPending = FALSE
    /\ queued = <<>>
    /\ pc = "first-render"

\* the events handled between a click on Add House Wash and the run of its
\* timeout callback; counted on this revision, where every pending callback
\* holds a link of its own
MaxRace == 3

\* a user event is handled: one more event has overtaken the pending callbacks
Overtakes ==
    /\ timer # <<>> => raced < MaxRace
    /\ raced' = IF timer = <<>> THEN 0 ELSE raced + 1

ModalToggleCard(id) ==
    /\ Overtakes
    /\ selected' = [selected EXCEPT ![id] = ~selected[id]]
    /\ opened' = NoUrl
    /\ pc' = "toggled"
    /\ UNCHANGED <<twoStory, gutterGuards, promoHouseHalf, showTripwire, showUpsell,
                   attemptedSchedule, bookingUrlRef, timer>>
    /\ UNCHANGED promoVars
    /\ UNCHANGED callVars
    /\ RenderModal

ModalSetTwoStory(answer) ==
    /\ Overtakes
    /\ hasTwoStoryRelevant(selected)
    /\ twoStory' = answer
    /\ opened' = NoUrl
    /\ pc' = "answered"
    /\ UNCHANGED <<selected, gutterGuards, promoHouseHalf, showTripwire, showUpsell,
                   attemptedSchedule, bookingUrlRef, timer>>
    /\ UNCHANGED promoVars
    /\ UNCHANGED callVars
    /\ RenderModal

ModalSetGutterGuards(answer) ==
    /\ Overtakes
    /\ hasGutter(selected)
    /\ gutterGuards' = answer
    /\ opened' = NoUrl
    /\ pc' = "answered"
    /\ UNCHANGED <<selected, twoStory, promoHouseHalf, showTripwire, showUpsell,
                   attemptedSchedule, bookingUrlRef, timer>>
    /\ UNCHANGED promoVars
    /\ UNCHANGED callVars
    /\ RenderModal

\* a click on Schedule Now, which is disabled unless total > 0
ModalScheduleNow ==
    /\ Overtakes
    /\ totals.total > 0
    /\ IF ~selected["house"]
       THEN /\ showTripwire' = TRUE
            /\ opened' = NoUrl
            /\ pc' = "offered"
       ELSE /\ showTripwire' = showTripwire
            /\ opened' = url
            /\ pc' = "scheduled"
    /\ UNCHANGED <<selected, twoStory, gutterGuards, promoHouseHalf, showUpsell,
                   attemptedSchedule, bookingUrlRef, timer>>
    /\ UNCHANGED promoVars
    /\ UNCHANGED callVars
    /\ RenderModal

\* a click on the backdrop of the modal
ModalDismiss ==
    /\ Overtakes
    /\ showTripwire
    /\ showTripwire' = FALSE
    /\ opened' = NoUrl
    /\ pc' = "dismissed"
    /\ UNCHANGED <<selected, twoStory, gutterGuards, promoHouseHalf, showUpsell,
                   attemptedSchedule, bookingUrlRef, timer>>
    /\ UNCHANGED promoVars
    /\ UNCHANGED callVars
    /\ RenderModal

\* the link the accept handler's timeout will open: the bookingUrl constant
\* of the render the handler was made in
tripwireCaptured(renderUrl, nextUrl) == renderUrl

\* a click on Add House Wash in the modal
ModalAccept ==
    /\ Overtakes
    /\ showTripwire
    /\ Len(timer) < MaxPending
    /\ selected' = [selected EXCEPT !["house"] = TRUE]
    /\ promoHouseHalf' = TRUE
    /\ showTripwire' = FALSE
    /\ opened' = NoUrl
    /\ pc' = "accepted"
    /\ UNCHANGED <<twoStory, gutterGuards, showUpsell, attemptedSchedule, bookingUrlRef>>
    /\ UNCHANGED promoVars
    /\ UNCHANGED callVars
    /\ RenderModal
    /\ timer' = Append(timer, [captured |-> tripwireCaptured(url, url')])

\* the oldest timeout set by ModalAccept: window.open(bookingUrl)
ModalTimerFires ==
    /\ timer # <<>>
    /\ opened' = Head(timer).captured
    /\ timer' = Tail(timer)
    /\ raced' = IF Tail(timer) = <<>> THEN 0 ELSE raced
    /\ pc' = "accepted-opened"
    /\ UNCHANGED <<selected, twoStory, gutterGuards, promoHouseHalf, showTripwire,
                   showUpsell, attemptedSchedule, bookingUrlRef>>
    /\ UNCHANGED promoVars
    /\ UNCHANGED callVars
    /\ RenderModal

\* a click on No Thanks in the modal
ModalDecline ==
    /\ Overtakes
    /\ showTripwire
    /\ showTripwire' = FALSE
    /\ opened' = url
    /\ pc' = "declined"
    /\ UNCHANGED <<selected, twoStory, gutterGuards, promoHouseHalf, showUpsell,
                   attemptedSchedule, bookingUrlRef, timer>>
    /\ UNCHANGED promoVars
    /\ UNCHANGED callVars
    /\ RenderModal

NextModal ==
    \/ \E id \in ServiceIds : ModalToggleCard(id)
    \/ \E answer \in {"Yes", "No"} : ModalSetTwoStory(answer)
    \/ \E answer \in {"Yes", "No"} : ModalSetGutterGuards(answer)
    \/ ModalScheduleNow
    \/ ModalDismiss
    \/ ModalAccept
    \/ ModalTimerFires
    \/ ModalDecline

SpecModal == InitModal /\ [][NextModal]_vars

-----------------------------------------------------------------------------
(* A sequence of computeTotals calls on the same catalog *)

MaxCalls == 3

\* the selection maps handed to the calls
CallSelections ==
    {[id \in ServiceIds |-> id \in chosenIds] :
        chosenIds \in {{}, {"roof"}, {"pressure-patio"}, ServiceIds}}

CallCodes == {null, ROOF50}

\* The objects a call works on, as a store of cells. Cells 1..n hold the n
\* Service objects of the array handed in, cell n + 1 holds the selection
\* map; every object and array the call creates is appended behind them.
\* An array is a cell holding the numbers of its elements' cells.
storeAtEntry(selectedMap, services) == services \o <<selectedMap>>

\* the callback assigning the price to the element it was given, and then
\* copying it: s.price = s.basePrice; return { ...s }
afterMap_AssignsElement(store, n) ==
    [i \in 1..Len(store) |->
        IF i <= n THEN Priced(store[i], store[i].basePrice) ELSE store[i]]
    \o [i \in 1..n |-> Priced(store[i], store[i].basePrice)]
    \o << [i \in 1..n |-> Len(store) + i] >>

\* services.map((s) => ({ ...s, price: s.basePrice })): the spread copies
\* the properties of each element into a new object, map collects the new
\* objects in a new array
afterMap(store, n) ==
    store
    \o [i \in 1..n |-> Priced(store[i], store[i].basePrice)]
    \o << [i \in 1..n |-> Len(store) + i] >>

\* adjustedServices.filter((s) => Boolean(selectedMap[s.id])): a new array
\* of the elements whose id the map holds as true; the map is read
afterFilter(store, n) ==
    LET adjusted == store[Len(store)]
        isChosen(cell) == store[n + 1][store[cell].id]
    IN  Append(store, SelectSeq(adjusted, isChosen))

\* promo.apply({ selected: selectedMap, subtotalAfterBundle }): the literal
\* is a new object that refers to the map; apply reads selected["roof"]
afterApply(store, n, code) ==
    IF findPromo(code) = NoPromo THEN store
    ELSE LET chosen == store[Len(store)]
             prices == [i \in 1..Len(chosen) |-> store[chosen[i]]]
             afterBundle == round2(sumPrices(prices)
                                   - round2(TimesRate(sumPrices(prices),
                                                      multiRateFor(effectiveCountOf(prices)))))
         IN  Append(store, [selected |-> n + 1, subtotalAfterBundle |-> afterBundle])

\* the store when the call returns
storeAtExit(selectedMap, services, code) ==
    LET n == Len(services)
    IN  afterApply(afterFilter(afterMap(storeAtEntry(selectedMap, services), n), n), n, code)

\* what a call leaves in the objects of the array it was given
servicesAfterCall(selectedMap, services, code) ==
    SubSeq(storeAtExit(selectedMap, services, code), 1, Len(services))

\* what a call leaves in the selection map it was given
selectedMapAfterCall(selectedMap, services, code) ==
    storeAtExit(selectedMap, services, code)[Len(services) + 1]

\* the chosen services as the call's store holds them when it returns
chosenAtExit(selectedMap, services, code) ==
    LET store == storeAtExit(selectedMap, services, code)
        chosen == store[IF findPromo(code) = NoPromo THEN Len(store) ELSE Len(store) - 1]
    IN  [i \in 1..Len(chosen) |-> store[chosen[i]]]

InitCalls ==
    /\ NoUpsell
    /\ catalog = SERVICES
    /\ callLog = <<>>
    /\ selected = NoSelection
    /\ twoStory = "No"
    /\ gutterGuards = "No"
    /\ promoHouseHalf = FALSE
    /\ promoCode = null
    /\ totals = NoTotals
    /\ mins = undefined
    /\ hours = undefined
    /\ meta = <<>>
    /\ url = NoUrl
    /\ promoInput = <<>>
    /\ appliedPromo = null
    /\ promoMsg = null
    /\ search = NoSearch
    /\ effectPending = FALSE
    /\ queued = <<>>
    /\ pc = "input"

CallAgain(selectedMap, ts, code) ==
    /\ Len(callLog) < MaxCalls
    /\ totals' = computeTotals(selectedMap, catalog, ts, FALSE, code)
    /\ selected' = selectedMapAfterCall(selectedMap, catalog, code)
    /\ catalog' = servicesAfterCall(selectedMap, catalog, code)
    /\ callLog' = Append(callLog, [selectedMap |-> selectedMap, twoStory |-> ts,
                                   promoCode |-> code, result |-> totals'])
    /\ twoStory' = IF ts THEN "Yes" ELSE "No"
    /\ promoCode' = code
    /\ pc' = "called"
    /\ UNCHANGED <<gutterGuards, promoHouseHalf, mins, hours, meta, url,
                   promoInput, appliedPromo, promoMsg, search, effectPending, queued>>
    /\ UNCHANGED upsellVars

NextCalls ==
    \E selectedMap \in CallSelections, ts \in BOOLEAN, code \in CallCodes :
        CallAgain(selectedMap, ts, code)

SpecCalls == InitCalls /\ [][NextCalls]_vars

-----------------------------------------------------------------------------
(* The rules as the specification words them, for the properties below.    *)
(* Amounts are written in dollars and cents and do not use the operators   *)
(* of the model above.                                                     *)

Called == pc # "input"

SelectedIds == {id \in ServiceIds : selected[id]}

Yes(answer) == answer = "Yes"

\* the house half-price flag reaches only the inline-upsell revision
HalfActive == pc = "upsell" /\ promoHouseHalf

PromoAmtOf(t) == IF "promoAmt" \in DOMAIN t THEN t.promoAmt ELSE 0

\* nearest cent, half up, on 1/10000 dollar
ToCents(n) == IF n % 100 >= 50 THEN n - (n % 100) + 100 ELSE n - (n % 100)

AfterPromoOf(t) == ToCents(ToCents(t.subtotal - t.multiAmt) - PromoAmtOf(t))

RECURSIVE SumOver(_, _)
SumOver(S, f) ==
    IF S = {} THEN 0
    ELSE LET x == CHOOSE y \in S : TRUE
         IN  f[x] + SumOver(S \ {x}, f)

\* section 4.1: price in dollars
SpecPrice(id, ts, gg, half) ==
    CASE id = "pressure-driveway" -> 249
      [] id = "pressure-patio" -> 99
      [] id = "roof" -> 899
      [] id = "windows" -> IF ts THEN 549 ELSE 449
      [] id = "gutter" -> (IF ts THEN 498 ELSE 249) + (IF gg THEN 749 ELSE 0)
      [] id = "house" -> IF half THEN (IF ts THEN 350 ELSE 300)
                         ELSE (IF ts THEN 699 ELSE 599)

SpecSubtotal(ids, ts, gg, half) ==
    10000 * SumOver(ids, [id \in ServiceIds |-> SpecPrice(id, ts, gg, half)])

\* section 4.2: duration in minutes
SpecDuration(id, ts, gg) ==
    CASE id = "pressure-driveway" -> 60
      [] id = "pressure-patio" -> 60
      [] id = "windows" -> 180
      [] id = "house" -> 120
      [] id = "roof" -> 120
      [] id = "gutter" -> IF ts THEN (IF gg THEN 360 ELSE 180)
                          ELSE (IF gg THEN 240 ELSE 120)

SpecMinutes(ids, ts, gg) ==
    SumOver(ids, [id \in ServiceIds |-> SpecDuration(id, ts, gg)])

BothPressure == {"pressure-driveway", "pressure-patio"} \subseteq SelectedIds

\* section 4.3: distinct discount categories of a selection
SpecCategories(ids) ==
    Cardinality(ids \ {"pressure-driveway", "pressure-patio"})
      + (IF ids \cap {"pressure-driveway", "pressure-patio"} # {} THEN 1 ELSE 0)

SpecRate(n) ==
    CASE n \in {0, 1} -> 0
      [] n = 2 -> 5
      [] n = 3 -> 10
      [] n = 4 -> 15
      [] n >= 5 -> 20

\* the Totals of every selection under every modifier, flag and promo code
AllTotals ==
    {computeTotalsUpsell(sel, SERVICES, ts, gg, half) :
        sel \in Selections, ts \in BOOLEAN, gg \in BOOLEAN, half \in BOOLEAN}
    \cup
    {computeTotals(sel, SERVICES, FALSE, FALSE, code) : sel \in Selections, code \in PromoCodes}

-----------------------------------------------------------------------------
(* Properties *)

\* C1: the Totals of every call satisfy
\* total = max(0, subtotal - discountAmount - promoAmount + minimumFee),
\* each difference and sum rounded to cents.
C1_TotalIdentity ==
    Called =>
        totals.total = Max(0, ToCents(AfterPromoOf(totals) + totals.tripFee))

\* C1 witness: a call where the bundle discount and the promo amount are both
\* subtracted.
C1_Witness ==
    /\ pc = "promo"
    /\ totals.multiAmt > 0
    /\ totals.promoAmt = 500000
    /\ totals.total = totals.subtotal - totals.multiAmt - 500000

\* C2: minimumFee = 249.00 - afterPromo when 0 < afterPromo < 249.00, and 0
\* otherwise (afterPromo = 249.00 and afterPromo = 0 included).
C2_MinimumFee ==
    Called =>
        LET afterPromo == AfterPromoOf(totals)
        IN  totals.tripFee =
                IF 0 < afterPromo /\ afterPromo < 2490000 THEN 2490000 - afterPromo ELSE 0

\* C2 witness: pressure-patio alone, 99.00 topped up by 150.00.
C2_Witness ==
    /\ Called
    /\ totals.subtotal = 990000
    /\ totals.tripFee = 1500000

\* C3: every non-empty selection is quoted at 249.00 or more, whatever the
\* modifiers, the house half-price flag and the promo code.
C3_NoOrderBelowMinimum ==
    (Called /\ SelectedIds # {}) => totals.total >= 2490000

\* C3 witness: a non-empty selection whose discounted amount is below the
\* minimum and is quoted at exactly 249.00.
C3_Witness ==
    /\ Called
    /\ SelectedIds # {}
    /\ AfterPromoOf(totals) < 2490000
    /\ totals.total = 2490000

\* C4: total >= 0 always, and the empty selection gets total = 0,
\* minimumFee = 0, subtotal = 0 and durationMinutes = 0 for every modifier
\* combination and promo code.
C4_EmptySelectionIsZero ==
    Called =>
        /\ totals.total >= 0
        /\ SelectedIds = {} =>
              /\ totals.total = 0
              /\ totals.tripFee = 0
              /\ totals.subtotal = 0
              /\ totals.durationMinutes = 0

\* C4 witness: the empty selection priced with both modifiers answered Yes and
\* the ROOF50 code given.
C4_Witness ==
    /\ pc = "promo"
    /\ SelectedIds = {}
    /\ Yes(twoStory) /\ Yes(gutterGuards)
    /\ promoCode = ROOF50
    /\ totals.total = 0

\* C5: the subtotal of computeTotals is the sum of the adjusted prices:
\* basePrice; with twoStory gutter is basePrice x 2 and house and windows add
\* 100; with gutterGuards gutter adds 749; roof and the pressure-wash services
\* stay at basePrice.  (Stated for calls without the house half-price flag.)
C5_AdjustedPrices ==
    (Called /\ ~HalfActive) =>
        totals.subtotal = SpecSubtotal(SelectedIds, Yes(twoStory), Yes(gutterGuards), FALSE)

\* C6: with the house half-price flag the house price is round(price x 0.5) to
\* a whole dollar, taken after the two-story +100: 300 for one story, 350 for
\* two; no other price changes.
C6_HouseHalfPrice ==
    HalfActive =>
        totals.subtotal = SpecSubtotal(SelectedIds, Yes(twoStory), Yes(gutterGuards), TRUE)

\* C6 witness: a two-story house at half price, 350.00, next to another
\* service at its full adjusted price.
C6_Witness ==
    /\ HalfActive
    /\ Yes(twoStory)
    /\ SelectedIds = {"house", "windows"}
    /\ totals.subtotal = 3500000 + 5490000

\* C7: the Totals computed while twoStory or gutterGuards is unanswered are the
\* Totals computed with that modifier answered No.
C7_UnansweredIsNo ==
    (pc = "upsell" /\ (twoStory = "Unanswered" \/ gutterGuards = "Unanswered")) =>
        totals = computeTotalsUpsell(selected, SERVICES,
                     IF twoStory = "Unanswered" THEN FALSE ELSE Yes(twoStory),
                     IF gutterGuards = "Unanswered" THEN FALSE ELSE Yes(gutterGuards),
                     promoHouseHalf)

\* C7 witness: gutter, house and windows priced with both questions
\* unanswered, at the one-story, no-guards prices.
C7_Witness ==
    /\ pc = "upsell"
    /\ twoStory = "Unanswered" /\ gutterGuards = "Unanswered"
    /\ ~promoHouseHalf
    /\ SelectedIds = {"gutter", "house", "windows"}
    /\ totals.subtotal = 2490000 + 5990000 + 4490000
    /\ totals.durationMinutes = 120 + 120 + 180

\* C8: durationMinutes is the sum of the selected services' durations, gutter
\* being (twoStory ? 180 : 120), doubled with gutterGuards; both pressure-wash
\* services add their durations.
C8_DurationSum ==
    Called =>
        totals.durationMinutes = SpecMinutes(SelectedIds, Yes(twoStory), Yes(gutterGuards))

\* C9: effectiveCount <= selectedCount, selectedCount being the number of
\* selected services; they differ, by one, exactly when both pressure-wash
\* services are selected.
C9_EffectiveCount ==
    Called =>
        /\ totals.selectedCount = Cardinality(SelectedIds)
        /\ totals.effectiveCount <= totals.selectedCount
        /\ totals.effectiveCount =
              IF BothPressure THEN totals.selectedCount - 1 ELSE totals.selectedCount

\* C9 witness: both pressure-wash services with others: one category fewer
\* than services.
C9_Witness ==
    /\ Called
    /\ SelectedIds = {"pressure-driveway", "pressure-patio", "roof", "gutter"}
    /\ totals.selectedCount = 4
    /\ totals.effectiveCount = 3

\* C10: discountRate is the step function of effectiveCount (0-1: 0%, 2: 5%,
\* 3: 10%, 4: 15%, 5+: 20%), the same for any two selections with the same
\* effectiveCount, and discountAmount = subtotal x rate rounded to cents.
C10_RateByEffectiveCount ==
    Called =>
        /\ totals.effectiveCount = SpecCategories(SelectedIds)
        /\ totals.multiRate = SpecRate(totals.effectiveCount)
        /\ totals.multiAmt = ToCents((totals.subtotal * totals.multiRate) \div 100)
        /\ \A t \in AllTotals :
              t.effectiveCount = totals.effectiveCount => t.multiRate = totals.multiRate

\* C10 witness: all six services, five categories, 20% of 2544.00.
C10_Witness ==
    /\ Called
    /\ SelectedIds = ServiceIds
    /\ ~Yes(twoStory) /\ ~Yes(gutterGuards) /\ ~HalfActive
    /\ totals.effectiveCount = 5
    /\ totals.multiRate = 20
    /\ totals.multiAmt = 5088000

-----------------------------------------------------------------------------
(* Subtotal and promo properties *)

\* the revision called, applied to another selection or promo code
Recomputed(sel, code) ==
    IF pc = "promo"
    THEN computeTotals(sel, SERVICES, Yes(twoStory), Yes(gutterGuards), code)
    ELSE computeTotalsUpsell(sel, SERVICES, Yes(twoStory), Yes(gutterGuards), promoHouseHalf)

Only(id) == [x \in ServiceIds |-> x = id]

\* blanks and line breaks
SpecBlanks == {" ", "\t", "\n", "\r", "\f", ""}

\* a spelling of ROOF50: the six characters in either case between white space
IsRoof50Spelling(code) ==
    /\ code # null
    /\ \E a \in 0..Len(code), b \in 0..Len(code) :
          /\ a + 6 + b = Len(code)
          /\ \A k \in 1..a : code[k] \in SpecBlanks
          /\ \A k \in (a + 7)..Len(code) : code[k] \in SpecBlanks
          /\ code[a + 1] \in {"r", "R"}
          /\ code[a + 2] \in {"o", "O"}
          /\ code[a + 3] \in {"o", "O"}
          /\ code[a + 4] \in {"f", "F"}
          /\ code[a + 5] = "5"
          /\ code[a + 6] = "0"

\* section 4.4: ROOF50 is given and roof is selected
PromoApplicable == IsRoof50Spelling(promoCode) /\ selected["roof"]

\* C11: subtotal is the sum of the adjusted prices of the selected services,
\* none left out as a duplicate; adding a service raises subtotal by exactly
\* that service's adjusted price, and never lowers it.
C11_SubtotalAdditive ==
    Called =>
        /\ totals.subtotal =
              SumOver(SelectedIds, [id \in ServiceIds |-> Recomputed(Only(id), promoCode).subtotal])
        /\ \A id \in ServiceIds \ SelectedIds :
              LET more == Recomputed([selected EXCEPT ![id] = TRUE], promoCode)
                  price == Recomputed(Only(id), promoCode).subtotal
              IN  /\ price > 0
                  /\ more.subtotal = totals.subtotal + price
                  /\ more.subtotal >= totals.subtotal

\* C11 witness: both pressure-wash services, one category, 249.00 + 99.00.
C11_Witness ==
    /\ Called
    /\ SelectedIds = {"pressure-driveway", "pressure-patio"}
    /\ totals.effectiveCount = 1
    /\ totals.subtotal = 3480000

\* C12: with ROOF50 and roof selected, promoAmount is
\* min(subtotalAfterBundle, min(50, max(0, subtotalAfterBundle))) to the cent;
\* with no applicable code it is 0; it never exceeds subtotal - discountAmount.
C12_PromoAmount ==
    pc = "promo" =>
        LET afterBundle == ToCents(totals.subtotal - totals.multiAmt)
            capped == IF afterBundle < 0 THEN 0
                      ELSE IF afterBundle < 500000 THEN afterBundle ELSE 500000
        IN  /\ totals.promoAmt = (IF PromoApplicable THEN ToCents(capped) ELSE 0)
            /\ totals.promoAmt <= totals.subtotal - totals.multiAmt

\* C12 witness: roof and gutter with the code typed in lower case: 50.00 off
\* the 1090.60 left after the 5% bundle discount.
C12_Witness ==
    /\ pc = "promo"
    /\ promoCode = <<"r", "o", "o", "f", "5", "0">>
    /\ SelectedIds = {"roof", "gutter"}
    /\ totals.multiAmt = 574000
    /\ totals.promoAmt = 500000

\* C13: a code that is not in the registry, or whose predicate is false for
\* the selection, changes nothing: computeTotals returns the same Totals record
\* as with no promo code.
C13_RejectedPromoSameTotals ==
    (pc = "promo" /\ ~PromoApplicable) =>
        totals = computeTotals(selected, SERVICES, Yes(twoStory), Yes(gutterGuards), null)

\* C14: the total with any promo code is at most the total with no promo code.
C14_PromoNeverRaisesTotal ==
    pc = "promo" => totals.total <= Recomputed(selected, null).total

\* C14 witness: roof alone with ROOF50, 849.00 against 899.00 without.
C14_Witness ==
    /\ pc = "promo"
    /\ SelectedIds = {"roof"}
    /\ totals.total = 8490000
    /\ Recomputed(selected, null).total = 8990000

\* C15: every letter-case spelling of ROOF50, with or without surrounding
\* white space, resolves to the same promo and gives the same Totals, with
\* promoCode = ROOF50; a null or empty code resolves to no promo.
C15_CodeCanonicalized ==
    pc = "promo" =>
        /\ IsRoof50Spelling(promoCode) =>
              /\ totals.promoCode = <<"R", "O", "O", "F", "5", "0">>
              /\ totals = Recomputed(selected, <<"R", "O", "O", "F", "5", "0">>)
        /\ promoCode \in {null, <<>>} =>
              /\ totals.promoCode = null
              /\ totals.promoAmt = 0

\* C15 witness: a mixed-case spelling between a tab and a blank, applied.
C15_Witness ==
    /\ pc = "promo"
    /\ promoCode = <<"\t", "r", "O", "o", "F", "5", "0", "\t", " ">>
    /\ selected["roof"]
    /\ totals.promoCode = <<"R", "O", "O", "F", "5", "0">>
    /\ totals.promoAmt = 500000

-----------------------------------------------------------------------------
(* Booking slot and booking link properties *)

\* the minutes of a duration that is present
MinutesOf(m) == m[1]

\* the least h with 60 * h >= n
SpecCeil(n) == CHOOSE h \in 0..(n + 1) : 60 * h >= n /\ 60 * (h - 1) < n

\* C17: mapDurationToHours(minutes) is ceil(minutes / 60) clamped to 1..8
\* for every positive duration, 1 for a zero, negative or missing duration,
\* 8 for every duration above 480 minutes, always an integer in 1..8, and
\* 360 minutes map to 6.
C17_HourBucket ==
    pc = "slot" =>
        /\ hours[1] \in 1..8
        /\ (mins = undefined \/ MinutesOf(mins) <= 0) => hours[1] = 1
        /\ (mins # undefined /\ MinutesOf(mins) > 0) =>
              hours[1] = (IF SpecCeil(MinutesOf(mins)) > 8 THEN 8
                          ELSE IF SpecCeil(MinutesOf(mins)) < 1 THEN 1
                          ELSE SpecCeil(MinutesOf(mins)))
        /\ (mins # undefined /\ MinutesOf(mins) > 480) => hours[1] = 8
        /\ mins = <<360>> => hours[1] = 6

C17_Witness ==
    /\ pc = "slot"
    /\ mins = <<481>>
    /\ hours = <<8>>

\* the endpoints as the specification names them
SpecEndpoint ==
    << "https://cal.com/guardian-pressure-washing/1-hour-job",
       "https://cal.com/guardian-pressure-washing/2-hour-job",
       "https://cal.com/guardian-pressure-washing/3-hour-job",
       "https://cal.com/guardian-pressure-washing/4-hour-job",
       "https://cal.com/guardian-pressure-washing/5-hour-job",
       "https://cal.com/guardian-pressure-washing/6-hour-job",
       "https://cal.com/guardian-pressure-washing/7-hour-job",
       "https://cal.com/guardian-pressure-washing/8-hour-job" >>

\* the positions of the query parameters of that name
ParamsNamed(u, name) == {j \in 1..Len(u.searchParams) : u.searchParams[j][1] = name}

\* C18: buildBookingUrl takes the '<h>-hour-job' endpoint for an hour bucket
\* h in 1..8 and the 8-hour endpoint for any other or missing value, appends
\* exactly one 'metadata[<key>]' parameter per metadata entry, with the
\* entry's value, and keeps overlayCalendar=true.
C18_BookingUrl ==
    pc = "url" =>
        /\ (hours # undefined /\ hours[1] \in 1..8) => url.endpoint = SpecEndpoint[hours[1]]
        /\ (hours = undefined \/ hours[1] \notin 1..8) => url.endpoint = SpecEndpoint[8]
        /\ \A i \in 1..Len(meta) :
              /\ Cardinality(ParamsNamed(url, <<"metadata[", meta[i][1], "]">>)) = 1
              /\ \A j \in ParamsNamed(url, <<"metadata[", meta[i][1], "]">>) :
                    url.searchParams[j][2] = meta[i][2]
        /\ Len(url.searchParams) = Len(meta) + 1
        /\ \E j \in 1..Len(url.searchParams) : url.searchParams[j] = << <<"overlayCalendar">>, <<"true">> >>

C18_Witness ==
    /\ pc = "url"
    /\ hours = <<9>>
    /\ Len(meta) = 3
    /\ url.endpoint = "https://cal.com/guardian-pressure-washing/8-hour-job"
    /\ Len(url.searchParams) = 4
-----------------------------------------------------------------------------
(* Booking metadata properties *)

\* the values the link carries under a metadata key
MetaValuesOf(u, key) ==
    {u.searchParams[j][2] : j \in ParamsNamed(u, <<"metadata[", key, "]">>)}

\* the answer as the specification words it
SpecAnswer(relevant, answer) ==
    IF ~relevant THEN "N/A"
    ELSE IF answer = "Unanswered" THEN "Required"
    ELSE answer

\* C19: in the booking-link metadata twoStory is N/A when none of house,
\* windows, gutter is selected, Required when one of them is selected and
\* the question is unanswered, and Yes or No as answered otherwise;
\* gutterGuards is the same with gutter cleaning as the relevant service;
\* houseTripwire50 is Yes exactly when the house half-price flag is active.
C19_AnswerMetadata ==
    pc = "upsell" =>
        /\ MetaValuesOf(url, "twoStory") =
              {<<SpecAnswer(SelectedIds \cap {"house", "windows", "gutter"} # {}, twoStory)>>}
        /\ MetaValuesOf(url, "gutterGuards") =
              {<<SpecAnswer("gutter" \in SelectedIds, gutterGuards)>>}
        /\ MetaValuesOf(url, "houseTripwire50") \in {{<<"Yes">>}, {<<"No">>}}
        /\ MetaValuesOf(url, "houseTripwire50") = {<<"Yes">>} <=> promoHouseHalf

C19_Witness ==
    /\ pc = "upsell"
    /\ SelectedIds = {"house", "roof"}
    /\ twoStory = "Unanswered"
    /\ gutterGuards = "Yes"
    /\ promoHouseHalf
    /\ MetaValuesOf(url, "twoStory") = {<<"Required">>}
    /\ MetaValuesOf(url, "gutterGuards") = {<<"N/A">>}
    /\ MetaValuesOf(url, "houseTripwire50") = {<<"Yes">>}

\* the metadata keys the specification requires of a booking link
RequiredKeys ==
    {"services", "subtotal", "discountRate", "discountAmount", "promoCode",
     "promoAmount", "total", "durationMinutes", "effectiveServiceCount",
     "twoStory", "gutterGuards", "houseTripwire50"}

\* C20: every booking link the program builds carries all required metadata
\* keys together: services, subtotal, discount rate and amount, promo code
\* and amount, total, duration minutes, effective category count, two-story
\* answer, gutter-guards answer and house half-price flag.
C20_AllRequiredKeys ==
    pc \in {"promo", "upsell"} =>
        \A key \in RequiredKeys : MetaValuesOf(url, key) # {}
-----------------------------------------------------------------------------
(* Promo field properties *)

\* the codes of the registry, as the specification names them
SpecCodes == {<<"R", "O", "O", "F", "5", "0">>}

\* the location carries the three markers of the doorhanger campaign
CampaignSearch ==
    /\ search.utm_source = "doorhanger"
    /\ search.utm_medium = "print"
    /\ search.utm_campaign = "roof_cleaning"

    /\ appliedPromo = <<"R", "O", "O", "F", "5", "0">>
    /\ totals.promoCode = <<"R", "O", "O", "F", "5", "0">>
    /\ totals.promoAmt = 500000
-----------------------------------------------------------------------------
(* Scheduling properties of the inline-upsell component *)

\* a link has been handed to window.open by the last step
LinkOpened == opened # NoUrl

\* C21: after any sequence of card clicks, answers, Schedule Now, accepting
\* or declining the offer, a booking link is opened only in a state where
\* the selection is not empty, the total is above zero, the two-story
\* question is answered if house, windows or gutter is selected, and the
\* gutter-guards question is answered if gutter is selected.
C21_OpenOnlyWhenComplete ==
    LinkOpened =>
        /\ SelectedIds # {}
        /\ totals.total > 0
        /\ SelectedIds \cap {"house", "windows", "gutter"} # {} => twoStory # "Unanswered"
        /\ "gutter" \in SelectedIds => gutterGuards # "Unanswered"
-----------------------------------------------------------------------------
(* Campaign link properties of the promo-code component *)

\* the three markers of the doorhanger campaign, as the specification names them
CampaignLink ==
    /\ search.utm_source = "doorhanger"
    /\ search.utm_medium = "print"
    /\ search.utm_campaign = "roof_cleaning"

\* no user event yet: the first render, also once the effect has run, or the
\* render after the mount effect
BeforeAnyEvent == pc \in {"first-render", "effect-run", "mounted"}

\* C22: loaded with utm_source=doorhanger, utm_medium=print and
\* utm_campaign=roof_cleaning, the page has roof cleaning selected and ROOF50
\* applied before the first render shows any totals, so every render before
\* a user event shows them; with a marker missing or different, neither the
\* selection nor the promo is changed.
C22_CampaignBeforeFirstRender ==
    BeforeAnyEvent =>
        /\ CampaignLink =>
              /\ selected["roof"]
              /\ appliedPromo = <<"R", "O", "O", "F", "5", "0">>
              /\ totals.promoCode = <<"R", "O", "O", "F", "5", "0">>
        /\ ~CampaignLink =>
              /\ SelectedIds = {}
              /\ appliedPromo = null
              /\ promoInput = <<>>
-----------------------------------------------------------------------------
(* Statelessness *)

\* the ids of the catalog in the order it is declared
SpecCatalogIds ==
    <<"pressure-driveway", "pressure-patio", "roof", "house", "gutter", "windows">>

\* the prices of a list of priced services added up
RECURSIVE SpecSum(_)
SpecSum(list) == IF list = <<>> THEN 0 ELSE Head(list).price + SpecSum(Tail(list))

\* C23: computeTotals is deterministic and stateless: two calls with the
\* same selection, modifiers and promo code return the same Totals whatever
\* calls were made in between, and a call changes neither the selection map
\* it was given nor the service catalog.
C23_Stateless ==
    /\ \A i, j \in 1..Len(callLog) :
          ( /\ callLog[i].selectedMap = callLog[j].selectedMap
            /\ callLog[i].twoStory = callLog[j].twoStory
            /\ callLog[i].promoCode = callLog[j].promoCode )
          => callLog[i].result = callLog[j].result
    /\ Len(catalog) = 6
    /\ \A i \in 1..Len(catalog) :
          /\ DOMAIN catalog[i] = {"id", "name", "basePrice"}
          /\ catalog[i].id = SpecCatalogIds[i]
          /\ catalog[i].basePrice = <<249, 99, 899, 599, 249, 449>>[i] * 10000
    /\ callLog # <<>> =>
          /\ selected = callLog[Len(callLog)].selectedMap
          /\ DOMAIN selected = ServiceIds
          /\ callLog[Len(callLog)].result.subtotal =
                 SpecSum(chosenAtExit(selected, catalog, promoCode))
          /\ callLog[Len(callLog)].result.selectedCount =
                 Len(chosenAtExit(selected, catalog, promoCode))

\* the same call made twice with a different call in between
C23_Witness ==
    /\ Len(callLog) = 3
    /\ callLog[1].selectedMap = callLog[3].selectedMap
    /\ callLog[1].twoStory = callLog[3].twoStory
    /\ callLog[1].promoCode = callLog[3].promoCode
    /\ callLog[2].selectedMap # callLog[1].selectedMap
    /\ callLog[1].selectedMap["roof"]
    /\ callLog[1].result = callLog[3].result
    /\ callLog[1].result.total > 0
-----------------------------------------------------------------------------
(* The house-wash offer *)

\* the offer is in the page
OfferShown == ~selected["house"] /\ showUpsell

\* the user has just accepted or declined the offer
OfferAnswered == pc \in {"accepted", "declined"}

\* C24: the offer goes NotShown -> Shown -> {Accepted, Declined}: it comes
\* into the page only by a click on Schedule Now while House Wash is not
\* selected, and it is a one-time offer: once the user has accepted or
\* declined it, it is never shown again.
C24_OneTimeOffer ==
    /\ [][(~OfferShown /\ OfferShown') => (pc' = "offered" /\ ~selected["house"])]_vars
    /\ [](OfferAnswered => [](~OfferShown))
-----------------------------------------------------------------------------
(* The link opened on accepting the offer *)

\* the link carries this text under the key
MetaIs(u, key, text) == MetaValuesOf(u, key) = {text}

\* C25: when the user accepts the offer, the link that is opened is the one
\* computed after House Wash was added: it lists House Wash at its half
\* price, has houseTripwire50=Yes, its total and hour bucket are those of
\* computeTotals for the updated selection; it is never the link captured
\* before House Wash was added.
C25_AcceptOpensFreshLink ==
    pc = "accepted-opened" =>
        /\ opened = url
        /\ MetaIs(opened, "houseTripwire50", <<"Yes">>)
        /\ MetaValuesOf(opened, "total") = MetaValuesOf(url, "total")
        /\ opened.endpoint = SpecEndpoint[hours[1]]
        /\ \E i \in 1..Len(opened.searchParams) :
              /\ opened.searchParams[i][1] = <<"metadata[", "services", "]">>
              /\ \E k \in 1..Len(opened.searchParams[i][2]) :
                    opened.searchParams[i][2][k] = "House Wash"
-----------------------------------------------------------------------------
(* The promo shown as applied *)

\* the page says "Code ... applied." and the summary names the code
PromoShownApplied == appliedPromo # null /\ totals.promoCode # null

\* C26: after any sequence of card clicks, Apply, Remove and the campaign
\* auto-trigger, whenever a promo code is shown as applied its predicate
\* holds for the current selection (for ROOF50: roof cleaning is selected)
\* and the promo amount is above zero.
C26_AppliedPromoIsValid ==
    PromoShownApplied =>
        /\ appliedPromo = <<"R", "O", "O", "F", "5", "0">> => selected["roof"]
        /\ totals.promoAmt > 0
-----------------------------------------------------------------------------
(* The house half-price flag *)

\* C27: the house half-price flag is set only by accepting the offer, and
\* once set no UI operation clears it: from then on House Wash, whenever it
\* is selected, is priced at half, and every booking link, the opened ones
\* included, reports houseTripwire50=Yes, even with House Wash deselected.
C27_HalfFlagSticky ==
    [][ /\ promoHouseHalf => promoHouseHalf'
        /\ (~promoHouseHalf /\ promoHouseHalf') => pc' = "accepted"
        /\ pc' = "accepted" => promoHouseHalf'
        /\ promoHouseHalf' =>
              /\ totals'.subtotal =
                    SpecSubtotal({id \in ServiceIds : selected'[id]},
                                 Yes(twoStory'), Yes(gutterGuards'), TRUE)
              /\ MetaIs(url', "houseTripwire50", <<"Yes">>)
              /\ opened' # NoUrl => MetaIs(opened', "houseTripwire50", <<"Yes">>)
        /\ ~promoHouseHalf' => MetaIs(url', "houseTripwire50", <<"No">>)
      ]_vars

\* the offer was accepted, House Wash was deselected afterwards, and a link
\* opened then still reports the flag
C27_Witness ==
    /\ pc = "declined"
    /\ promoHouseHalf
    /\ ~selected["house"]
    /\ MetaIs(opened, "houseTripwire50", <<"Yes">>)
-----------------------------------------------------------------------------
(* The booking link against the Totals *)

DigitValue(c) ==
    CASE c = "0" -> 0 [] c = "1" -> 1 [] c = "2" -> 2 [] c = "3" -> 3 [] c = "4" -> 4
      [] c = "5" -> 5 [] c = "6" -> 6 [] c = "7" -> 7 [] c = "8" -> 8 [] c = "9" -> 9

\* the number a text of decimal digits stands for
RECURSIVE DigitsValue(_)
DigitsValue(text) ==
    IF text = <<>> THEN 0
    ELSE 10 * DigitsValue(SubSeq(text, 1, Len(text) - 1)) + DigitValue(text[Len(text)])

\* the cents a text "dollars.cc" stands for
MoneyValue(text) ==
    LET dot == CHOOSE k \in 1..Len(text) : text[k] = "."
    IN  100 * DigitsValue(SubSeq(text, 1, dot - 1))
          + DigitsValue(SubSeq(text, dot + 1, Len(text)))

\* the cents of the prices listed in a services text "name ($price), ..."
ListedCents(text) ==
    LET opens == {i \in 1..Len(text) : text[i] = " ($"}
        close(i) == CHOOSE j \in (i + 1)..Len(text) :
                        text[j] = ")" /\ \A k \in (i + 1)..(j - 1) : text[k] # ")"
    IN  SumOver(opens, [i \in opens |-> MoneyValue(SubSeq(text, i + 1, close(i) - 1))])

\* the one value the link carries under a metadata key
TheMeta(u, key) == CHOOSE text \in MetaValuesOf(u, key) : TRUE

\* the hour bucket of a duration, as the specification words it
SpecBucket(minutes) ==
    IF minutes <= 0 THEN 1
    ELSE IF SpecCeil(minutes) > 8 THEN 8 ELSE SpecCeil(minutes)

\* C28: the booking link is consistent with the Totals of the same state:
\* the prices listed in the services metadata sum to the subtotal metadata
\* value, total and durationMinutes are those of the Totals, and the base
\* endpoint is the one of the hour bucket of durationMinutes.
C28_LinkMatchesTotals ==
    pc \in {"promo", "upsell"} =>
        /\ ListedCents(TheMeta(url, "services")) = MoneyValue(TheMeta(url, "subtotal"))
        /\ MoneyValue(TheMeta(url, "subtotal")) * 100 = totals.subtotal
        /\ MoneyValue(TheMeta(url, "total")) * 100 = totals.total
        /\ DigitsValue(TheMeta(url, "durationMinutes")) = totals.durationMinutes
        /\ totals = Recomputed(selected, promoCode)
        /\ url.endpoint = SpecEndpoint[SpecBucket(totals.durationMinutes)]

\* a link of the inline-upsell revision where every price rule has acted
C28_Witness ==
    /\ pc = "upsell"
    /\ SelectedIds = {"house", "gutter"}
    /\ twoStory = "Yes"
    /\ gutterGuards = "Yes"
    /\ promoHouseHalf
    /\ ListedCents(TheMeta(url, "services")) = 159700
    /\ TheMeta(url, "subtotal") = <<"1", "5", "9", "7", ".", "0", "0">>
    /\ url.endpoint = "https://cal.com/guardian-pressure-washing/8-hour-job"
-----------------------------------------------------------------------------
(* The minimum fee over the catalog *)

\* C29: over the real catalog, for every selection, modifier combination,
\* house half-price flag and promo code, the minimum fee is non-zero for
\* exactly one selection, pressure-patio alone, where it is 150 and the
\* total is 249; for every other selection the minimum fee is 0.
C29_OnlyPatioPaysFee ==
    Called =>
        /\ totals.tripFee # 0 <=> SelectedIds = {"pressure-patio"}
        /\ SelectedIds = {"pressure-patio"} =>
              /\ totals.tripFee = 150 * 10000
              /\ totals.total = 249 * 10000

\* the back patio alone, in a two-story home with the flag set
C29_Witness ==
    /\ pc = "upsell"
    /\ SelectedIds = {"pressure-patio"}
    /\ twoStory = "Yes"
    /\ gutterGuards = "Yes"
    /\ promoHouseHalf
    /\ totals.subtotal = 99 * 10000
    /\ totals.tripFee = 150 * 10000
    /\ totals.total = 249 * 10000

\* the cheapest other selections pay no fee
C29_WitnessNoFee ==
    /\ pc = "upsell"
    /\ SelectedIds = {"house"}
    /\ promoHouseHalf
    /\ twoStory = "No"
    /\ totals.subtotal = 300 * 10000
    /\ totals.tripFee = 0
-----------------------------------------------------------------------------
(* The total when a service is added *)

\* the Totals of the selection with one more service
WithService(id) == Recomputed([selected EXCEPT ![id] = TRUE], promoCode)

\* C30 as stated: for fixed modifiers and promo code, adding one more
\* service to any selection never decreases the total, also when the added
\* service moves the bundle discount to a higher tier.
C30_TotalMonotone ==
    Called =>
        \A id \in ServiceIds \ SelectedIds : WithService(id).total >= totals.total

\* C30 amended: for fixed modifiers and promo code, adding one more service
\* never decreases the total while the bundle discount rate stays the same;
\* when the added service moves the discount to a higher tier the total can
\* decrease, by less than 5 percent of the earlier subtotal, and it stays at
\* 249 or more.
C30_TotalMonotoneWithinTier ==
    Called =>
        \A id \in ServiceIds \ SelectedIds :
            /\ WithService(id).multiRate = totals.multiRate =>
                  WithService(id).total >= totals.total
            /\ 20 * (totals.total - WithService(id).total) < totals.subtotal + 1
            /\ WithService(id).total >= 249 * 10000

\* roof, house and windows cost 1752.30; with the back patio added the
\* discount goes from 10 to 15 percent and the total is 1739.10
C30_Witness ==
    /\ pc = "promo"
    /\ promoCode = null
    /\ SelectedIds = {"roof", "house", "windows"}
    /\ totals.total = 17523000
    /\ WithService("pressure-patio").total = 17391000
    /\ WithService("pressure-patio").multiRate = 15
    /\ WithService("pressure-driveway").total > totals.total
====
